---- MODULE Spec2Model ----
(***************************************************************************)
(* A model of rustypacket's decode core: the EagerPacket accumulator and   *)
(* its PacketBuilder operations, the decode functions of the reserved      *)
(* layer types, the generic layer decode function, and failure capture.    *)
(*                                                                         *)
(* Rust's Option<T> is modelled as a sequence of length at most one:       *)
(* None is <<>> and Some(x) is <<x>>.  Byte strings (Rc<[u8]>) are         *)
(* sequences of small naturals.  An Rc<RefCell<dyn PacketBuilder>> is the  *)
(* packet record it points to; cloning a packet yields an independent      *)
(* record (EagerPacket derives Clone, its Vec fields are copied).          *)
(***************************************************************************)
EXTENDS Naturals, Sequences, FiniteSets, TLC

VARIABLES
    pkt,    \* the EagerPacket being built / read
    pc,     \* position of the decode call that owns pkt
    op,     \* name of the operation that produced this state
    ret,    \* what that operation returned
    inner,  \* Some(builder the next decode function ran on, after it returned)
    buf,    \* a SerializeBuffer
    registry, \* a LayerRegistry
    concat, \* a Concat: its remaining sources, each the results it has yet to give
    chain   \* the decode functions running: their frames, innermost last

vars == <<pkt, pc, op, ret, inner, buf, registry, concat, chain>>

-----------------------------------------------------------------------------
(* Bounds of the model *)

MaxByte == 4
MaxData == 2
MaxLayers == 2

Bytes == 0..MaxByte

RECURSIVE SeqsUpTo(_, _)
SeqsUpTo(S, n) ==
    IF n = 0 THEN {<<>>}
    ELSE LET shorter == SeqsUpTo(S, n - 1)
         IN  shorter \cup {Append(s, x) : s \in {t \in shorter : Len(t) = n - 1}, x \in S}

DataSet == SeqsUpTo(Bytes, MaxData)

-----------------------------------------------------------------------------
(* Option *)

None == <<>>
Some(x) == <<x>>
is_none(o) == Len(o) = 0
is_some(o) == Len(o) = 1
unwrap(o) == o[1]

-----------------------------------------------------------------------------
(* Results: Result<(), DecodeError>, and the values of read accessors *)

Ok == [ok |-> TRUE, err |-> "", val |-> <<>>]
Err(msg) == [ok |-> FALSE, err |-> msg, val |-> <<>>]
Value(v) == [ok |-> TRUE, err |-> "", val |-> v]

ERR_NO_LAST_LAYER == "next_decoder called, but no last layers found"
ERR_DECODE_UNKNOWN == "decode unknown layer type"
ERR_RECOVER == "recover decode error"
ERR_COLLABORATOR == "collaborator decode error"

-----------------------------------------------------------------------------
(* Layer types *)

LayerTypeZero == 0
LayerTypeDecodeFailure == 1
LayerTypePayload == 2
LayerTypeFragment == 3
LayerTypeBase == 4

-----------------------------------------------------------------------------
(* Layers.  Every layer is a record                                        *)
(*   [kind, layer_type, in_data, payload, err]                             *)
(* kind names the Rust struct; layer_type is the struct's layer_type field *)
(* (an Option in DecodeFailure); in_data is the bytes the layer holds;     *)
(* payload is BaseLayer's payload field (None for the other structs, which *)
(* have no such field); err is DecodeFailure's error message.              *)

\* Payload::new()
Payload_new ==
    [kind |-> "Payload", layer_type |-> Some(LayerTypePayload),
     in_data |-> None, payload |-> None, err |-> None]

\* Payload::new_from(data)
Payload_new_from(data) == [Payload_new EXCEPT !.in_data = Some(data)]

\* Fragment::new()
Fragment_new ==
    [kind |-> "Fragment", layer_type |-> Some(LayerTypeFragment),
     in_data |-> None, payload |-> None, err |-> None]

\* Fragment::new_from(data)
Fragment_new_from(data) == [Fragment_new EXCEPT !.in_data = Some(data)]

\* BaseLayer::new(contents, payload), as the layer of a collaborator protocol
BaseLayer_new(contents, payload) ==
    [kind |-> "BaseLayer", layer_type |-> Some(LayerTypeBase),
     in_data |-> Some(contents), payload |-> Some(payload), err |-> None]

\* Layer::layer_contents
layer_contents(l) == l.in_data

\* Layer::layer_payload: None for Payload, Fragment and DecodeFailure
layer_payload(l) ==
    IF l.kind = "BaseLayer" THEN l.payload ELSE None

\* ApplicationLayer::payload: in_data for Payload, None for Fragment
application_payload(l) ==
    IF l.kind = "Payload" THEN l.in_data ELSE None

\* Payloadable::decode_from_bytes of Payload and of Fragment: stores the data
decode_from_bytes(l, data) == [l EXCEPT !.in_data = Some(data)]

-----------------------------------------------------------------------------
(* DecodeOptions *)

DecodeOptions_default ==
    [lazy |-> FALSE, no_copy |-> FALSE, pool |-> FALSE,
     skip_decode_recovery |-> FALSE, decode_streams_as_datagrams |-> FALSE]

OptionsSet ==
    {[DecodeOptions_default EXCEPT !.skip_decode_recovery = b] : b \in BOOLEAN}

-----------------------------------------------------------------------------
(* EagerPacket *)

\* EagerPacket::new(data, opts)
EagerPacket_new(data, opts) ==
    [data |-> data, layers |-> <<>>, last |-> None,
     metadata |-> [truncated |-> FALSE],
     decode_options |-> opts,
     link |-> None, network |-> None, transport |-> None,
     application |-> None, failure |-> None]

\* DecodeFeedback::set_truncated
set_truncated(p) == [p EXCEPT !.metadata.truncated = TRUE]

\* add_layer putting the new layer in front of the decoded ones
add_layer_prepend(p, layer) ==
    [p EXCEPT !.layers = <<layer>> \o @, !.last = Some(layer)]

\* PacketBuilder::add_layer
add_layer(p, layer) ==
    [p EXCEPT !.layers = Append(@, layer), !.last = Some(layer)]

\* PacketBuilder::set_link_layer
set_link_layer(p, l) ==
    IF is_none(p.link) THEN [p EXCEPT !.link = Some(l)] ELSE p

\* set_network_layer without the is_none test: the last call wins
set_network_layer_overwrite(p, l) == [p EXCEPT !.network = Some(l)]

\* PacketBuilder::set_network_layer
set_network_layer(p, l) ==
    IF is_none(p.network) THEN [p EXCEPT !.network = Some(l)] ELSE p

\* PacketBuilder::set_transport_layer
set_transport_layer(p, l) ==
    IF is_none(p.transport) THEN [p EXCEPT !.transport = Some(l)] ELSE p

\* PacketBuilder::set_application_layer
set_application_layer(p, l) ==
    IF is_none(p.application) THEN [p EXCEPT !.application = Some(l)] ELSE p

\* PacketBuilder::set_error_layer
set_error_layer(p, l) ==
    IF is_none(p.failure) THEN [p EXCEPT !.failure = Some(l)] ELSE p

\* PacketBuilder::layers_count
layers_count(p) == Len(p.layers)

\* PacketBuilder::decode_options
decode_options(p) == p.decode_options

\* #[derive(Clone)] on EagerPacket: an independent copy of every field
clone(p) == p

\* PacketBuilder::as_decode_feedback: the handle is a clone of the packet
as_decode_feedback(p) == clone(p)

-----------------------------------------------------------------------------
(* A collaborator protocol, used to exercise the dispatch chain: a layer   *)
(* with a one-byte header whose value names the layer type of its payload. *)
(* decode_from_bytes reports truncation through the feedback handle and    *)
(* fails when the header is missing.                                       *)

BaseHeaderLen == 1

Base_decode_from_bytes(data, df) ==
    IF Len(data) < BaseHeaderLen
    THEN [ok |-> FALSE, err |-> ERR_COLLABORATOR, layer |-> None,
          next |-> LayerTypeZero, df |-> set_truncated(df)]
    ELSE [ok |-> TRUE, err |-> "",
          layer |-> Some(BaseLayer_new(SubSeq(data, 1, BaseHeaderLen),
                                       SubSeq(data, BaseHeaderLen + 1, Len(data)))),
          next |-> data[1], df |-> df]

-----------------------------------------------------------------------------
(* Decode functions (DecodeFunc values are named by strings) *)

\* decoder_builder: the decode function of each reserved layer type
decoder_builder(t) ==
    CASE t = LayerTypeZero -> "create_decode_unknown"
      [] t = LayerTypeDecodeFailure -> "create_decode_unknown"
      [] t = LayerTypePayload -> "create_decode_payload"
      [] t = LayerTypeFragment -> "decode_fragment"

\* the decode function a layer type resolves to, collaborator types included
DecoderFor(t) ==
    IF t \in {LayerTypeZero, LayerTypeDecodeFailure, LayerTypePayload, LayerTypeFragment}
    THEN decoder_builder(t)
    ELSE IF t = LayerTypeBase THEN "decoding_layer_decoder"
    ELSE "create_decode_unknown"

\* create_decode_unknown accepting the empty input
create_decode_unknown_empty_ok(data, b) ==
    [b |-> b, res |-> IF Len(data) = 0 THEN Ok ELSE Err(ERR_DECODE_UNKNOWN)]

\* create_decode_unknown: fails for every input, builder untouched
create_decode_unknown(data, b) == [b |-> b, res |-> Err(ERR_DECODE_UNKNOWN)]

\* create_decode_payload that forgets to classify the layer
create_decode_payload_no_slot(data, b) ==
    [b |-> add_layer(b, decode_from_bytes(Payload_new, data)), res |-> Ok]

\* create_decode_payload
create_decode_payload(data, b) ==
    LET payload0 == decode_from_bytes(Payload_new, data)
        b1 == add_layer(b, payload0)
        b2 == set_application_layer(b1, payload0)
    IN  [b |-> b2, res |-> Ok]

\* decode_fragment
decode_fragment(data, b) ==
    LET payload0 == decode_from_bytes(Fragment_new, data)
        b1 == add_layer(b, payload0)
        b2 == set_application_layer(b1, payload0)
    IN  [b |-> b2, res |-> Ok]

RECURSIVE RunDecoder(_, _, _)

\* next_decoder treating a missing last layer as the end of the walk
next_decoder_no_last_ok(p, next) ==
    IF is_none(p.last)
    THEN [b |-> p, res |-> Ok, invoked |-> FALSE, inner |-> None]
    ELSE LET payload == layer_payload(unwrap(p.last)) IN
         IF is_none(payload) \/ Len(unwrap(payload)) = 0
         THEN [b |-> p, res |-> Ok, invoked |-> FALSE, inner |-> None]
         ELSE LET r == RunDecoder(next, unwrap(payload), clone(p))
              IN  [b |-> p, res |-> r.res, invoked |-> TRUE, inner |-> Some(r.b)]

\* next_decoder without the test for an empty payload
next_decoder_no_empty_check(p, next) ==
    IF is_none(p.last)
    THEN [b |-> p, res |-> Err(ERR_NO_LAST_LAYER), invoked |-> FALSE, inner |-> None]
    ELSE LET payload == layer_payload(unwrap(p.last)) IN
         IF is_none(payload)
         THEN [b |-> p, res |-> Ok, invoked |-> FALSE, inner |-> None]
         ELSE LET r == RunDecoder(next, unwrap(payload), clone(p))
              IN  [b |-> p, res |-> r.res, invoked |-> TRUE, inner |-> Some(r.b)]

\* PacketBuilder::next_decoder.  The next decode function is handed
\* Rc::new(RefCell::new(self.clone())): a fresh copy, dropped on return, so
\* self is as it was.  b is the calling builder afterwards, invoked tells
\* whether the next decode function ran, and inner is the builder that
\* function was handed, as it left it.
next_decoder(p, next) ==
    IF is_none(p.last)
    THEN [b |-> p, res |-> Err(ERR_NO_LAST_LAYER), invoked |-> FALSE, inner |-> None]
    ELSE LET payload == layer_payload(unwrap(p.last)) IN
         IF is_none(payload) \/ Len(unwrap(payload)) = 0
         THEN [b |-> p, res |-> Ok, invoked |-> FALSE, inner |-> None]
         ELSE LET r == RunDecoder(next, unwrap(payload), clone(p))
              IN  [b |-> p, res |-> r.res, invoked |-> TRUE, inner |-> Some(r.b)]

\* decoding_layer_decoder, for a layer of the collaborator protocol
decoding_layer_decoder(data, b) ==
    LET d == Base_decode_from_bytes(data, as_decode_feedback(b)) IN
    IF ~d.ok
    THEN [b |-> b, res |-> Err(d.err)]
    ELSE LET b1 == add_layer(b, unwrap(d.layer)) IN
         IF d.next = LayerTypeZero
         THEN [b |-> b1, res |-> Ok]
         ELSE LET n == next_decoder(b1, DecoderFor(d.next))
              IN  [b |-> n.b, res |-> n.res]

\* calling a DecodeFunc
RunDecoder(f, data, b) ==
    CASE f = "create_decode_unknown" -> create_decode_unknown(data, b)
      [] f = "create_decode_payload" -> create_decode_payload(data, b)
      [] f = "decode_fragment" -> decode_fragment(data, b)
      [] f = "decoding_layer_decoder" -> decoding_layer_decoder(data, b)

-----------------------------------------------------------------------------
(* Failure capture *)

\* add_final_decode_error putting the failure in front of the decoded layers
add_final_decode_error_front(p, err) ==
    LET failure ==
            [kind |-> "DecodeFailure", layer_type |-> None,
             in_data |-> IF is_some(p.last) THEN layer_payload(unwrap(p.last))
                         ELSE Some(p.data),
             payload |-> None, err |-> Some(err)]
    IN  set_error_layer([p EXCEPT !.layers = <<failure>> \o @,
                                  !.last = Some(failure)], failure)

\* EagerPacket::add_final_decode_error
add_final_decode_error(p, err) ==
    LET failure ==
            [kind |-> "DecodeFailure", layer_type |-> None,
             in_data |-> IF is_some(p.last) THEN layer_payload(unwrap(p.last))
                         ELSE Some(p.data),
             payload |-> None, err |-> Some(err)]
    IN  set_error_layer(add_layer(p, failure), failure)

\* recover_decode_error without the skip_decode_recovery test
recover_decode_error_ignores_skip(p) == add_final_decode_error(p, ERR_RECOVER)

\* EagerPacket::recover_decode_error
recover_decode_error(p) ==
    IF ~p.decode_options.skip_decode_recovery
    THEN add_final_decode_error(p, ERR_RECOVER)
    ELSE p

\* DecodeFailure::new(data, err, stack)
DecodeFailure_new(data, err) ==
    [kind |-> "DecodeFailure", layer_type |-> Some(LayerTypeDecodeFailure),
     in_data |-> Some(data), payload |-> None, err |-> Some(err)]

\* The decode call (new_packet) once its first decode function has returned
\* res: an error is handed to failure capture, and reaches the caller only
\* when recovery is skipped.
finish_decode(p, res) ==
    IF res.ok
    THEN [p |-> p, res |-> Ok]
    ELSE [p |-> recover_decode_error(p),
          res |-> IF p.decode_options.skip_decode_recovery THEN res ELSE Ok]

\* Packetable::layers
layers(p) == p.layers

\* Packetable::error_layer
error_layer(p) == p.failure

\* Packetable::application_layer
application_layer(p) == p.application

\* Packetable::link_layer
link_layer(p) == p.link

\* Packetable::network_layer
network_layer(p) == p.network

\* Packetable::transport_layer
transport_layer(p) == p.transport

-----------------------------------------------------------------------------
(* Checksum verification of a decoded packet *)

\* ChecksumVerificationResult
ChecksumVerificationResult(valid, correct, actual) ==
    [valid |-> valid, correct |-> correct, actual |-> actual]

\* a collaborator layer with a checksum; verify is what its
\* verify_checksum returns
ChecksumLayer(verify) ==
    [kind |-> "ChecksumLayer", layer_type |-> Some(LayerTypeBase),
     in_data |-> Some(<<>>), payload |-> None, err |-> None, verify |-> verify]

\* Layer::verify_checksum: Payload answers with a PacketError::Decode,
\* DecodeFailure with a PacketError::MethodNotImplemented
verify_checksum(l) ==
    CASE l.kind = "Payload" -> [ok |-> FALSE, error |-> "Decode"]
      [] l.kind = "DecodeFailure" -> [ok |-> FALSE, error |-> "MethodNotImplemented"]
      [] l.kind = "ChecksumLayer" -> l.verify

ERR_COULD_NOT_VERIFY == "could not verify checksum for layer"
ERR_MISMATCHES_FOUND == "Checksum mismatches found"

\* VerifyChecksumError::new; layer is the layer number formatted into the
\* message, if any
VerifyChecksumError_new(msg, layer) ==
    [ok |-> FALSE, err |-> msg, val |-> <<>>, layer |-> layer]

\* ChecksumMismatch
ChecksumMismatch(result, layer, layer_index) ==
    [result |-> result, layer |-> layer, layer_index |-> layer_index]

\* the loop of verify_checksums from index i (counted from 0, as
\* enumerate() does) with the mismatches collected so far
RECURSIVE verify_checksums_from(_, _, _)
verify_checksums_from(ls, i, mismatches) ==
    IF i >= Len(ls)
    THEN IF Len(mismatches) = 0
         THEN Value(mismatches)
         ELSE VerifyChecksumError_new(ERR_MISMATCHES_FOUND, None)
    ELSE LET layer == ls[i + 1]
             r == verify_checksum(layer)
         IN  IF r.ok
             THEN verify_checksums_from(ls, i + 1,
                      IF ~r.cvr.valid
                      THEN Append(mismatches, ChecksumMismatch(r.cvr, layer, i))
                      ELSE mismatches)
             ELSE IF r.error = "VerifyChecksum"
             THEN VerifyChecksumError_new(ERR_COULD_NOT_VERIFY, Some(i + 1))
             ELSE verify_checksums_from(ls, i + 1, mismatches)

\* Packetable::verify_checksums
verify_checksums(p) == verify_checksums_from(layers(p), 0, <<>>)

-----------------------------------------------------------------------------
(* RFC1071 checksum.  A u32 is the pair <<high 16 bits, low 16 bits>>, a  *)
(* u16 and a u8 are naturals.                                              *)

U16 == 65536

\* the u32 of a natural below 2^31
u32(n) == <<n \div U16, n % U16>>
Zero32 == u32(0)

\* (x as u32) << 8 of a byte, x >> 16, x & 0xffff (also x as u16), and !x
\* on a u16
shl8(x) == x * 256
shr16(c) == c[1]
low16(c) == c[2]
not16(x) == (U16 - 1) - x

\* csum += x for x below 2^16, wrapping at 2^32 as the release build does
add32(c, x) ==
    LET low == c[2] + x IN <<(c[1] + low \div U16) % U16, low % U16>>

\* the loop of compute_checksum: for i in (0..length).step_by(2)
RECURSIVE compute_checksum_loop(_, _, _)
compute_checksum_loop(data, i, csum) ==
    IF i >= Len(data)
    THEN csum
    ELSE LET c1 == add32(csum, shl8(data[i + 1]))
             c2 == IF i + 1 < Len(data) THEN add32(c1, data[i + 2]) ELSE c1
         IN  compute_checksum_loop(data, i + 2, c2)

\* compute_checksum with the words read low byte first
compute_checksum_little_endian(data, csum) ==
    LET swapped == [k \in 1..Len(data) |->
                        IF k % 2 = 1
                        THEN (IF k + 1 <= Len(data) THEN data[k + 1] ELSE 0)
                        ELSE data[k - 1]]
    IN  compute_checksum_loop(swapped, 0, csum)

\* compute_checksum that starts from zero instead of the initial value
compute_checksum_drops_initial(data, csum) ==
    LET c == compute_checksum_loop(data, 0, Zero32)
    IN  IF Len(data) % 2 = 1 THEN add32(c, shl8(data[Len(data)])) ELSE c

\* compute_checksum
compute_checksum(data, csum) ==
    LET c == compute_checksum_loop(data, 0, csum)
    IN  IF Len(data) % 2 = 1 THEN add32(c, shl8(data[Len(data)])) ELSE c

\* the while loop of fold_checksum, and the number of times its body runs
RECURSIVE fold_loop(_)
fold_loop(csum) ==
    IF shr16(csum) > 0 THEN fold_loop(u32(shr16(csum) + low16(csum))) ELSE csum

RECURSIVE fold_steps(_)
fold_steps(csum) ==
    IF shr16(csum) > 0 THEN 1 + fold_steps(u32(shr16(csum) + low16(csum))) ELSE 0

\* fold_checksum with an if in place of the while
fold_checksum_once(csum) ==
    not16(low16(IF shr16(csum) > 0 THEN u32(shr16(csum) + low16(csum)) ELSE csum))

\* fold_checksum
fold_checksum(csum) == not16(low16(fold_loop(csum)))

-----------------------------------------------------------------------------
(* SerializeBuffer.  data holds the bytes of the Vec<u8> and cap its       *)
(* capacity; positions count from 0 as in the source, so data[i] of the   *)
(* source is data[i + 1] here.  expected_prepend_length records the        *)
(* argument of new_default and is not a field of the struct.               *)

Max(x, y) == IF x >= y THEN x ELSE y

\* vec![0u8; n]
Zeros(n) == [k \in 1..n |-> 0]

\* a panic of the running call
Panic == [ok |-> FALSE, err |-> "panic", val |-> <<>>]

\* SerializeBuffer::new
SerializeBuffer_new ==
    [data |-> <<>>, cap |-> 0, start |-> 0, prepended |-> 0, appended |-> 0,
     layers |-> <<>>, expected_prepend_length |-> 0]

\* SerializeBuffer::new_default
SerializeBuffer_new_default(expected_prepend_length, expected_append_length) ==
    [data |-> Zeros(expected_prepend_length),
     cap |-> expected_prepend_length + expected_append_length,
     start |-> expected_prepend_length, prepended |-> 0, appended |-> 0,
     layers |-> <<>>, expected_prepend_length |-> expected_prepend_length]

\* SerializeableBuffer::bytes: &self.data[self.start..]
bytes(b) == SubSeq(b.data, b.start + 1, Len(b.data))

\* the last two statements of prepend_bytes: self.start -= num and the
\* slice self.data[self.start..self.start + num]
prepend_bytes_view(b, num) ==
    IF b.start < num
    THEN [b |-> b, res |-> Panic]
    ELSE LET b1 == [b EXCEPT !.start = @ - num] IN
         IF b1.start + num > Len(b1.data)
         THEN [b |-> b1, res |-> Panic]
         ELSE [b |-> b1, res |-> Value(Some(<<b1.start, b1.start + num>>))]

\* prepend_bytes that grows the margin by the request alone
prepend_bytes_linear(b, num) ==
    IF b.start < num
    THEN LET to_prepend == num
             b1 == [b EXCEPT !.prepended = @ + to_prepend]
             length == b.cap + to_prepend
             new_start == b.start + to_prepend
         IN  IF b.start > Len(b.data) \/ new_start > length
                \/ length - new_start # Len(b.data) - b.start
             THEN [b |-> b1, res |-> Panic]
             ELSE LET new_data == Zeros(new_start) \o bytes(b)
                      data2 == SubSeq(new_data, 1, to_prepend + Len(b.data))
                      b2 == [b1 EXCEPT !.start = b.start + new_start,
                                       !.data = data2, !.cap = Len(data2)]
                  IN  prepend_bytes_view(b2, num)
    ELSE prepend_bytes_view(b, num)

\* SerializeableBuffer::prepend_bytes.  copy_from_slice panics unless both
\* slices have the same length; new_data[..n].to_owned() has capacity n.
prepend_bytes(b, num) ==
    IF b.start < num
    THEN LET to_prepend == Max(b.prepended, num)
             b1 == [b EXCEPT !.prepended = @ + to_prepend]
             length == b.cap + to_prepend
             new_start == b.start + to_prepend
         IN  IF b.start > Len(b.data) \/ new_start > length
                \/ length - new_start # Len(b.data) - b.start
             THEN [b |-> b1, res |-> Panic]
             ELSE LET new_data == Zeros(new_start) \o bytes(b)
                      data2 == SubSeq(new_data, 1, to_prepend + Len(b.data))
                      b2 == [b1 EXCEPT !.start = b.start + new_start,
                                       !.data = data2, !.cap = Len(data2)]
                  IN  prepend_bytes_view(b2, num)
    ELSE prepend_bytes_view(b, num)

\* smallest capacity a growing Vec<u8> takes
MinNonZeroCap == 8

\* Vec::reserve: amortized growth
reserve(cap, len, additional) ==
    IF cap - len >= additional
    THEN cap
    ELSE Max(Max(2 * cap, len + additional), MinNonZeroCap)

\* append_bytes that resizes the data to its whole capacity
append_bytes_to_capacity(b, num) ==
    LET initial_length == Len(b.data)
        to_append == Max(b.appended, num)
        b1 == IF b.cap - initial_length < num
              THEN [b EXCEPT !.appended = @ + to_append,
                             !.cap = reserve(b.cap, initial_length, to_append)]
              ELSE b
        b2 == [b1 EXCEPT !.data = @ \o Zeros(b1.cap - initial_length)]
    IN  [b |-> b2, res |-> Value(Some(<<initial_length, Len(b2.data)>>))]

\* SerializeableBuffer::append_bytes
append_bytes(b, num) ==
    LET initial_length == Len(b.data)
        to_append == Max(b.appended, num)
        b1 == IF b.cap - initial_length < num
              THEN [b EXCEPT !.appended = @ + to_append,
                             !.cap = reserve(b.cap, initial_length, to_append)]
              ELSE b
        b2 == [b1 EXCEPT !.data = @ \o Zeros(num)]
    IN  [b |-> b2, res |-> Value(Some(<<initial_length, Len(b2.data)>>))]

\* SerializeableBuffer::clear
clear(b) ==
    LET b1 == [b EXCEPT !.start = b.prepended] IN
    IF b1.start > Len(b1.data)
    THEN [b |-> b1, res |-> Panic]
    ELSE [b |-> [b1 EXCEPT !.data = SubSeq(@, 1, b1.start), !.cap = b1.start,
                            !.layers = <<>>],
          res |-> Ok]

\* SerializeableBuffer::push_layer
push_layer(b, layer_type) == [b EXCEPT !.layers = Append(@, layer_type)]

\* the caller overwrites the bytes of a view start..end with the byte v
write_view(b, view, v) ==
    [b EXCEPT !.data = [k \in 1..Len(@) |->
                            IF view[1] < k /\ k <= view[2] THEN v ELSE @[k]]]

\* bytes.copy_from_slice(data) on a view start..end of the buffer
copy_from_slice(b, view, data) ==
    [b EXCEPT !.data = [k \in 1..Len(@) |->
                            IF view[1] < k /\ k <= view[2]
                            THEN data[k - view[1]] ELSE @[k]]]

ERR_IN_DATA_EMPTY == "in_data is empty"

\* serialize_to that takes a layer with no data as a layer of no bytes
serialize_to_empty_ok(l, b) ==
    IF is_none(l.in_data)
    THEN [b |-> b, res |-> Ok]
    ELSE LET data == unwrap(l.in_data)
             r == prepend_bytes(b, Len(data))
         IN  IF r.res.ok
             THEN [b |-> copy_from_slice(r.b, unwrap(r.res.val), data), res |-> Ok]
             ELSE r

\* SerializableLayer::serialize_to of Payload and of Fragment
serialize_to(l, b) ==
    IF is_none(l.in_data)
    THEN [b |-> b, res |-> Err(ERR_IN_DATA_EMPTY)]
    ELSE LET data == unwrap(l.in_data)
             r == prepend_bytes(b, Len(data))
         IN  IF r.res.ok
             THEN [b |-> copy_from_slice(r.b, unwrap(r.res.val), data), res |-> Ok]
             ELSE r

\* SerializableLayer::layer_type of Payload and of Fragment
serializable_layer_type(l) == unwrap(l.layer_type)

\* the loop of serialize_layers: layers[i], layers[i - 1], ..., layers[1]
RECURSIVE serialize_layers_rev(_, _, _)
serialize_layers_rev(b, ls, i) ==
    IF i = 0
    THEN [b |-> b, res |-> Ok]
    ELSE LET r == serialize_to(ls[i], b) IN
         IF r.res.ok
         THEN serialize_layers_rev(push_layer(r.b, serializable_layer_type(ls[i])),
                                   ls, i - 1)
         ELSE r

\* serialize_layers
serialize_layers(b, ls) ==
    LET c == clear(b) IN
    IF c.res.ok THEN serialize_layers_rev(c.b, ls, Len(ls)) ELSE c

-----------------------------------------------------------------------------
(* LayerClass.  A LayerClassSlice is the Vec<bool> as a sequence (index t  *)
(* of the source is index t + 1 here), a LayerClassMap the HashMap as a    *)
(* function from its keys to booleans.                                     *)

MAX_LAYER_TYPE == 2000

\* the elements of a slice of ids
Elems(types) == {types[i] : i \in 1..Len(types)}

\* types.iter().max().cloned().unwrap_or_default()
max_or_default(types) ==
    IF Len(types) = 0 THEN 0
    ELSE CHOOSE m \in Elems(types) : \A t \in Elems(types) : t <= m

\* new_layer_class_slice
new_layer_class_slice(types) ==
    [kind |-> "LayerClassSlice",
     slice |-> [k \in 1..(max_or_default(types) + 1) |-> (k - 1) \in Elems(types)],
     map |-> <<>>]

\* new_layer_class_map
new_layer_class_map(types) ==
    [kind |-> "LayerClassMap", slice |-> <<>>,
     map |-> [t \in Elems(types) |-> TRUE]]

\* new_layer_class
new_layer_class(types) ==
    IF \E typ \in Elems(types) : typ > MAX_LAYER_TYPE
    THEN new_layer_class_map(types)
    ELSE new_layer_class_slice(types)

\* contains that takes an id without an entry as a member
contains_default_true(class, t) ==
    IF class.kind = "LayerClassSlice"
    THEN IF t < Len(class.slice) THEN class.slice[t + 1] ELSE TRUE
    ELSE IF t \in DOMAIN class.map THEN class.map[t] ELSE TRUE

\* LayerClass::contains of LayerClassSlice and of LayerClassMap
contains(class, t) ==
    IF class.kind = "LayerClassSlice"
    THEN IF t < Len(class.slice) THEN class.slice[t + 1] ELSE FALSE
    ELSE IF t \in DOMAIN class.map THEN class.map[t] ELSE FALSE

-----------------------------------------------------------------------------
(* LayerRegistry.  lt_meta and lt_meta_map are functions from the indices *)
(* that hold Some(LayerType) to that LayerType: an index of the array      *)
(* outside the domain holds None, a key outside the domain is not in the   *)
(* map.  lt_meta_map_poisoned is the poison flag of the Mutex around       *)
(* lt_meta_map, set when a call panics while it holds the guard.  num is   *)
(* taken non-negative.                                                     *)

\* a LayerType: id, name and decode function
LayerType(id, name, decoder) == [id |-> id, name |-> name, decoder |-> decoder]

\* LayerRegistry::new
LayerRegistry_new ==
    [decoders_by_layer_name |-> <<>>, lt_meta_map |-> <<>>, lt_meta |-> <<>>,
     lt_meta_map_poisoned |-> FALSE]

\* HashMap::insert, and the assignment of Some(v) to an array entry
insert(f, k, v) == [x \in DOMAIN f \cup {k} |-> IF x = k THEN v ELSE f[x]]

\* LayerRegistry::override_layer_type
override_layer_type(reg, num, meta) ==
    IF num < MAX_LAYER_TYPE
    THEN [reg |-> [reg EXCEPT !.lt_meta = insert(@, num, meta),
                              !.decoders_by_layer_name =
                                    insert(@, meta.name, meta.decoder)],
          res |-> Value(num)]
    ELSE IF reg.lt_meta_map_poisoned
    THEN [reg |-> reg, res |-> Panic]
    ELSE [reg |-> [reg EXCEPT !.lt_meta_map = insert(@, num, meta),
                              !.decoders_by_layer_name =
                                    insert(@, meta.name, meta.decoder)],
          res |-> Value(num)]

\* LayerRegistry::register_layer
register_layer(reg, meta, num) ==
    LET over == override_layer_type(reg, num, meta)
        done == [reg |-> over.reg, res |-> IF over.res.ok THEN Ok ELSE over.res]
    IN  IF num < MAX_LAYER_TYPE
        THEN IF num \in DOMAIN reg.lt_meta
             THEN [reg |-> reg, res |-> Panic]
             ELSE done
        ELSE IF reg.lt_meta_map_poisoned
             THEN [reg |-> reg, res |-> Panic]
             ELSE IF num \in DOMAIN reg.lt_meta_map
             THEN [reg |-> [reg EXCEPT !.lt_meta_map_poisoned = TRUE], res |-> Panic]
             ELSE done

-----------------------------------------------------------------------------
(* Concat.  A PacketDataSource is the sequence of results its             *)
(* read_packet_data calls have yet to give; a source with none left        *)
(* reports end-of-file.  The (data, CaptureInfo) pair of a packet is       *)
(* handed through as it is.                                                *)

\* io::Error of kind UnexpectedEof, and an error that is not end-of-file
ERR_EOF == "EOF"
ERR_READ == "read error"

\* PacketDataSource::read_packet_data of a source: its next result, and
\* the source afterwards
source_read(src) ==
    IF Len(src) = 0
    THEN [src |-> src, res |-> Err(ERR_EOF)]
    ELSE [src |-> Tail(src), res |-> Head(src)]

\* Concat::read_packet_data that gives up at the first end-of-file
read_packet_data_stop_at_eof(c) ==
    IF Len(c) = 0
    THEN [c |-> c, res |-> Err(ERR_EOF)]
    ELSE LET r == source_read(c[1]) IN
         [c |-> <<r.src>> \o Tail(c), res |-> r.res]

\* Concat::read_packet_data
RECURSIVE read_packet_data(_)
read_packet_data(c) ==
    IF Len(c) = 0
    THEN [c |-> c, res |-> Err(ERR_EOF)]
    ELSE LET r == source_read(c[1]) IN
         IF r.res.ok
         THEN [c |-> <<r.src>> \o Tail(c), res |-> r.res]
         ELSE IF r.res.err = ERR_EOF
              THEN read_packet_data(Tail(c))
              ELSE [c |-> <<r.src>> \o Tail(c), res |-> r.res]

-----------------------------------------------------------------------------
(* The decode chain statement by statement.  A frame is one running      *)
(* decode function: f its name, data the bytes it was given, b the builder *)
(* it works on, at its position, d what decode_from_bytes returned, res    *)
(* its result once it has returned.  b0 is the builder as the function     *)
(* received it and called counts its next_decoder calls: both are kept for *)
(* the properties only.                                                    *)

Frame(f, data, b) ==
    [f |-> f, data |-> data, b |-> b, b0 |-> b, at |-> "start",
     d |-> None, res |-> Ok, called |-> 0]

\* decoding_layer_decoder that keeps the layer of a failed decode_from_bytes
dld_decode_adds_on_error(fr) ==
    LET d == Base_decode_from_bytes(fr.data, as_decode_feedback(fr.b)) IN
    IF ~d.ok
    THEN [fr EXCEPT !.d = Some(d), !.at = "returned", !.res = Err(d.err),
                    !.b = add_layer(@, BaseLayer_new(fr.data, <<>>))]
    ELSE [fr EXCEPT !.d = Some(d), !.at = "decoded"]

\* decoding_layer_decoder: decode_from_bytes on the feedback handle, and
\* the return of its error
dld_decode(fr) ==
    LET d == Base_decode_from_bytes(fr.data, as_decode_feedback(fr.b)) IN
    IF ~d.ok
    THEN [fr EXCEPT !.d = Some(d), !.at = "returned", !.res = Err(d.err)]
    ELSE [fr EXCEPT !.d = Some(d), !.at = "decoded"]

\* decoding_layer_decoder: packet_builder.add_layer(decoder)
dld_add_layer(fr) ==
    [fr EXCEPT !.b = add_layer(@, unwrap(unwrap(fr.d).layer)), !.at = "added"]

\* decoding_layer_decoder handing every next layer type to next_decoder
dld_stops_never(fr) == FALSE

\* decoding_layer_decoder: next == LayerTypeZero returns Ok(())
dld_stops(fr) == unwrap(fr.d).next = LayerTypeZero

\* PacketBuilder::next_decoder up to the call of the next decode function:
\* the frames after the call, innermost last
next_decoder_frames(fr, next) ==
    LET p == fr.b
        caller == [fr EXCEPT !.called = @ + 1]
    IN  IF is_none(p.last)
        THEN <<[caller EXCEPT !.at = "returned", !.res = Err(ERR_NO_LAST_LAYER)]>>
        ELSE LET payload == layer_payload(unwrap(p.last)) IN
             IF is_none(payload) \/ Len(unwrap(payload)) = 0
             THEN <<[caller EXCEPT !.at = "returned", !.res = Ok]>>
             ELSE <<[caller EXCEPT !.at = "calling"],
                    Frame(next, unwrap(payload), clone(p))>>

-----------------------------------------------------------------------------
(* Payload and Fragment as layers *)

\* Layer::string that ignores the data
string_zero(l) == "0 byte(s)"

\* Layer::string of Payload and of Fragment: the length of the data in
\* decimal, then " byte(s)"
string(l) ==
    IF is_none(l.in_data)
    THEN "0 byte(s)"
    ELSE ToString(Len(unwrap(l.in_data))) \o " byte(s)"

\* Payloadable::next_layer_type of Payload and of Fragment: the id of the
\* LayerType they build
next_layer_type(l) == LayerTypeZero

\* Payloadable::can_decode of Payload and of Fragment: the layer's own
\* LayerType, as its id
can_decode(l) == unwrap(l.layer_type)

\* LayerClass::contains of a LayerType
layer_type_contains(id, a) == id = a

-----------------------------------------------------------------------------
(* Reading the layers of a packet *)

\* Layer::layer_type: the layer_type field; DecodeFailure unwraps its Option
layer_type(l) ==
    IF is_none(l.layer_type) THEN Panic ELSE Value(unwrap(l.layer_type))

\* Packetable::layer: the first layer whose layer_type().id is the id
RECURSIVE find_layer(_, _, _)
find_layer(ls, i, id) ==
    IF i > Len(ls)
    THEN Value(None)
    ELSE LET lt == layer_type(ls[i]) IN
         IF ~lt.ok THEN Panic
         ELSE IF lt.val = id THEN Value(Some(ls[i]))
         ELSE find_layer(ls, i + 1, id)

packet_layer(p, id) == find_layer(p.layers, 1, id)

-----------------------------------------------------------------------------
(* Inputs of the builder operations *)

\* layers a decoder may add: payload present, payload empty, payload absent
SampleLayers ==
    {BaseLayer_new(<<4>>, <<4, 2>>), BaseLayer_new(<<3>>, <<>>), Payload_new_from(<<1>>)}

\* layers a decoder may classify as link, network or transport layer
SampleFlowLayers == {BaseLayer_new(<<4>>, <<4, 2>>), BaseLayer_new(<<3>>, <<>>)}

\* layers a decoder may classify as application layer
SampleApplicationLayers == {Payload_new_from(<<1>>), Fragment_new_from(<<2>>)}

\* layers a decoder may classify as error layer
SampleErrorLayers ==
    {DecodeFailure_new(<<1>>, ERR_COLLABORATOR), DecodeFailure_new(<<>>, ERR_DECODE_UNKNOWN)}

\* errors a decode function may return
SampleErrors == {ERR_COLLABORATOR, ERR_DECODE_UNKNOWN}

\* packet data of the packets built operation by operation
BuilderData == {<<>>, <<1, 2>>}

\* layer types handed to a decode call or to next_decoder
LayerTypeIds == 0..MaxByte

OpRec(name, layer, t, err) == [name |-> name, layer |-> layer, t |-> t, err |-> err]

-----------------------------------------------------------------------------
(* State machine *)

Init ==
    /\ pkt \in {EagerPacket_new(d, o) : d \in DataSet, o \in OptionsSet}
    /\ pc = "empty"
    /\ op = OpRec("new", None, None, None)
    /\ ret = Ok
    /\ inner = None
    /\ buf = SerializeBuffer_new
    /\ registry = LayerRegistry_new
    /\ concat = <<>>
    /\ chain = <<>>

InitBuilder ==
    /\ pkt \in {EagerPacket_new(d, o) : d \in BuilderData, o \in OptionsSet}
    /\ pc = "empty"
    /\ op = OpRec("new", None, None, None)
    /\ ret = Ok
    /\ inner = None
    /\ buf = SerializeBuffer_new
    /\ registry = LayerRegistry_new
    /\ concat = <<>>
    /\ chain = <<>>

\* the decode function is running: builder operations are available
Building == pc \in {"empty", "decoding"}

\* the decode call has returned: the packet is read through Packetable
Terminated == pc \in {"decoded", "failed"}

BuilderStep(name, layer, p) ==
    /\ Building
    /\ pkt' = p
    /\ pc' = "decoding"
    /\ op' = OpRec(name, layer, None, None)
    /\ ret' = Ok
    /\ inner' = None
    /\ UNCHANGED <<buf, registry, concat, chain>>

AddLayer(l) ==
    /\ Len(pkt.layers) < MaxLayers
    /\ BuilderStep("add_layer", Some(l), add_layer(pkt, l))

SetLinkLayer(l) == BuilderStep("set_link_layer", Some(l), set_link_layer(pkt, l))

SetNetworkLayer(l) == BuilderStep("set_network_layer", Some(l), set_network_layer(pkt, l))

SetTransportLayer(l) ==
    BuilderStep("set_transport_layer", Some(l), set_transport_layer(pkt, l))

SetApplicationLayer(l) ==
    BuilderStep("set_application_layer", Some(l), set_application_layer(pkt, l))

SetErrorLayer(l) == BuilderStep("set_error_layer", Some(l), set_error_layer(pkt, l))

SetTruncated == BuilderStep("set_truncated", None, set_truncated(pkt))

\* a layer decoder reports truncation through the handle it was given:
\* as_decode_feedback() followed by set_truncated() on the handle; inner
\* is the object behind the handle afterwards
FeedbackSetTruncated ==
    /\ Building
    /\ inner' = Some(set_truncated(as_decode_feedback(pkt)))
    /\ pkt' = pkt
    /\ pc' = "decoding"
    /\ op' = OpRec("feedback_set_truncated", None, None, None)
    /\ ret' = Ok
    /\ UNCHANGED <<buf, registry, concat, chain>>

NextDecoder(t) ==
    /\ Building
    /\ LET n == next_decoder(pkt, DecoderFor(t)) IN
        /\ pkt' = n.b
        /\ ret' = n.res
        /\ inner' = n.inner
    /\ pc' = "decoding"
    /\ op' = OpRec("next_decoder", None, Some(t), None)
    /\ UNCHANGED <<buf, registry, concat, chain>>

\* the first decode function returns res to the decode call
Finish(name, t, p, res) ==
    LET f == finish_decode(p, res) IN
    /\ pkt' = f.p
    /\ ret' = f.res
    /\ pc' = IF res.ok THEN "decoded" ELSE "failed"
    /\ op' = OpRec(name, None, t, IF res.ok THEN None ELSE Some(res.err))
    /\ inner' = None
    /\ UNCHANGED <<buf, registry, concat, chain>>

ReturnOk ==
    /\ Building
    /\ Finish("return", None, pkt, Ok)

ReturnErr(e) ==
    /\ Building
    /\ Finish("return", None, pkt, Err(e))

\* a whole decode call: the decode function of layer type t on the packet data
DecodeCall(t) ==
    /\ pc = "empty"
    /\ LET r == RunDecoder(DecoderFor(t), pkt.data, pkt)
       IN  Finish("decode", Some(t), r.b, r.res)

Read(name, v) ==
    /\ Terminated
    /\ op' = OpRec(name, None, None, None)
    /\ ret' = Value(v)
    /\ UNCHANGED <<pkt, pc, inner, buf, registry, concat, chain>>

Layers == Read("layers", layers(pkt))

ErrorLayer == Read("error_layer", error_layer(pkt))

ApplicationLayer == Read("application_layer", application_layer(pkt))

Next ==
    \/ \E t \in LayerTypeIds : DecodeCall(t)
    \/ Layers
    \/ ErrorLayer
    \/ ApplicationLayer

Spec == Init /\ [][Next]_vars

\* a decode function at work on the builder, up to its return
NextBuilder ==
    \/ \E l \in SampleLayers : AddLayer(l)
    \/ \E l \in SampleErrorLayers : SetErrorLayer(l)
    \/ SetTruncated
    \/ FeedbackSetTruncated
    \/ \E t \in LayerTypeIds : NextDecoder(t)
    \/ ReturnOk
    \/ \E e \in SampleErrors : ReturnErr(e)
    \/ Layers
    \/ ErrorLayer
    \/ ApplicationLayer

SpecBuilder == InitBuilder /\ [][NextBuilder]_vars

\* a decode function adding and classifying layers
NextSlots ==
    \/ \E l \in SampleLayers : AddLayer(l)
    \/ \E l \in SampleFlowLayers : SetLinkLayer(l)
    \/ \E l \in SampleFlowLayers : SetNetworkLayer(l)
    \/ \E l \in SampleFlowLayers : SetTransportLayer(l)
    \/ \E l \in SampleApplicationLayers : SetApplicationLayer(l)
    \/ \E l \in SampleErrorLayers : SetErrorLayer(l)
    \/ SetTruncated

InitSlots ==
    /\ pkt = EagerPacket_new(<<1, 2>>, DecodeOptions_default)
    /\ pc = "empty"
    /\ op = OpRec("new", None, None, None)
    /\ ret = Ok
    /\ inner = None
    /\ buf = SerializeBuffer_new
    /\ registry = LayerRegistry_new
    /\ concat = <<>>
    /\ chain = <<>>

SpecSlots == InitSlots /\ [][NextSlots]_vars

\* layers of a decoded packet, by what their verify_checksum returns:
\* a valid checksum, a mismatch, a hard failure, and the two kinds of
\* layer without a checksum
ChecksumLayers ==
    {ChecksumLayer([ok |-> TRUE, cvr |-> ChecksumVerificationResult(TRUE, 1, 1)]),
     ChecksumLayer([ok |-> TRUE, cvr |-> ChecksumVerificationResult(FALSE, 1, 2)]),
     ChecksumLayer([ok |-> FALSE, error |-> "VerifyChecksum"]),
     Payload_new_from(<<1>>),
     DecodeFailure_new(<<>>, ERR_DECODE_UNKNOWN)}

MaxChecksumLayers == 3

RECURSIVE AddLayers(_, _)
AddLayers(p, ls) ==
    IF Len(ls) = 0 THEN p ELSE AddLayers(add_layer(p, Head(ls)), Tail(ls))

\* a packet whose layers were added as test_verify_checksums adds them
InitChecksums ==
    /\ pkt \in {AddLayers(EagerPacket_new(<<>>, DecodeOptions_default), ls) :
                    ls \in SeqsUpTo(ChecksumLayers, MaxChecksumLayers)}
    /\ pc = "decoded"
    /\ op = OpRec("new", None, None, None)
    /\ ret = Ok
    /\ inner = None
    /\ buf = SerializeBuffer_new
    /\ registry = LayerRegistry_new
    /\ concat = <<>>
    /\ chain = <<>>

VerifyChecksums ==
    /\ Terminated
    /\ op' = OpRec("verify_checksums", None, None, None)
    /\ ret' = verify_checksums(pkt)
    /\ UNCHANGED <<pkt, pc, inner, buf, registry, concat, chain>>

NextChecksums ==
    \/ VerifyChecksums
    \/ Layers

SpecChecksums == InitChecksums /\ [][NextChecksums]_vars

\* the headers of test_checksum
Header1 ==
    <<69, 64, 0, 88, 0, 0, 0, 0, 255, 17, 255, 255, 10, 235, 29, 7, 10, 237, 136, 119>>
Header2 ==
    <<69, 0, 0, 115, 0, 0, 64, 0, 64, 17, 184, 97, 192, 168, 0, 1, 192, 168, 0, 199>>

\* bytes_copy[10] = 0; bytes_copy[11] = 0
ClearChecksum(header) == [header EXCEPT ![11] = 0, ![12] = 0]

MaxCsumData == 4
MaxCsumRest == 2

CsumBytes == {0, 1, 255}
CsumData ==
    SeqsUpTo(CsumBytes, MaxCsumData) \cup {ClearChecksum(Header1), ClearChecksum(Header2)}
CsumRest == SeqsUpTo({1, 255}, MaxCsumRest)
CsumInitials ==
    {<<0, 0>>, <<0, 1>>, <<0, U16 - 1>>, <<1, 0>>, <<1, U16 - 1>>,
     <<U16 - 1, 0>>, <<U16 - 1, U16 - 2>>, <<U16 - 1, U16 - 1>>}

CsumCall(name, data, rest, csum) ==
    [name |-> name, data |-> data, rest |-> rest, csum |-> csum]

\* the inputs of a checksum computation: the bytes data, the bytes rest of
\* a second region, and a 32-bit value csum
InitCsum ==
    /\ op \in {CsumCall("input", d, r, c) :
                    d \in CsumData, r \in CsumRest, c \in CsumInitials}
    /\ ret = Ok
    /\ pkt = EagerPacket_new(<<>>, DecodeOptions_default)
    /\ pc = "empty"
    /\ inner = None
    /\ buf = SerializeBuffer_new
    /\ registry = LayerRegistry_new
    /\ concat = <<>>
    /\ chain = <<>>

CsumStep(name, v) ==
    /\ op.name = "input"
    /\ op' = [op EXCEPT !.name = name]
    /\ ret' = Value(v)
    /\ UNCHANGED <<pkt, pc, inner, buf, registry, concat, chain>>

\* compute_checksum(data, csum), for initial values that leave room in the
\* 32-bit total
ComputeChecksum ==
    /\ shr16(op.csum) < 2
    /\ CsumStep("compute_checksum", compute_checksum(op.data, op.csum))

\* fold_checksum(compute_checksum(data, 0)), as test_checksum calls them
Checksum == CsumStep("checksum", fold_checksum(compute_checksum(op.data, Zero32)))

\* fold_checksum(csum)
FoldChecksum == CsumStep("fold_checksum", fold_checksum(op.csum))

\* compute_checksum(rest, compute_checksum(data, 0)): two regions, one total
ComputeRegions ==
    CsumStep("compute_regions",
             compute_checksum(op.rest, compute_checksum(op.data, Zero32)))

NextCsum ==
    \/ ComputeChecksum
    \/ Checksum
    \/ FoldChecksum
    \/ ComputeRegions

SpecCsum == InitCsum /\ [][NextCsum]_vars

MaxBufLen == 32
MaxFilledLen == 12
MaxSize == 2
MaxBufLayers == 1

\* sizes asked of prepend_bytes and append_bytes
Sizes == 0..MaxSize

\* buffers as the two constructors make them
NewBuffers ==
    {SerializeBuffer_new, SerializeBuffer_new_default(2, 0),
     SerializeBuffer_new_default(2, 3)}

BufCall(name, num) == [name |-> name, num |-> num]

InitBuffer(buffers) ==
    /\ buf \in buffers
    /\ registry = LayerRegistry_new
    /\ concat = <<>>
    /\ chain = <<>>
    /\ pc = "ready"
    /\ op = BufCall("new", 0)
    /\ ret = Ok
    /\ pkt = EagerPacket_new(<<>>, DecodeOptions_default)
    /\ inner = <<>>

\* the byte a caller writes into the view it was given: a value that
\* tells the bytes of successive calls apart
FillByte(b) == (Len(bytes(b)) % 255) + 1

\* a call that returns a view, and the caller overwriting the view with v
ViewStep(name, num, r, v) ==
    /\ pc = "ready"
    /\ buf' = IF r.res.ok THEN write_view(r.b, unwrap(r.res.val), v) ELSE r.b
    /\ ret' = r.res
    /\ op' = BufCall(name, num)
    /\ pc' = IF r.res.ok THEN "ready" ELSE "panicked"
    /\ UNCHANGED <<pkt, inner, registry, concat, chain>>

PrependBytes(num, v) ==
    /\ buf.start >= num \/ Max(buf.prepended, num) + Len(buf.data) <= MaxBufLen
    /\ ViewStep("prepend_bytes", num, prepend_bytes(buf, num), v)

AppendBytes(num, v) ==
    /\ Len(buf.data) + num <= MaxBufLen
    /\ buf.cap - Len(buf.data) >= num \/ Max(buf.appended, num) <= MaxBufLen
    /\ ViewStep("append_bytes", num, append_bytes(buf, num), v)

Clear ==
    /\ pc = "ready"
    /\ LET r == clear(buf) IN
        /\ buf' = r.b
        /\ ret' = r.res
        /\ pc' = IF r.res.ok THEN "ready" ELSE "panicked"
    /\ op' = BufCall("clear", 0)
    /\ UNCHANGED <<pkt, inner, registry, concat, chain>>

PushLayer(t) ==
    /\ pc = "ready"
    /\ Len(buf.layers) < MaxBufLayers
    /\ buf' = push_layer(buf, t)
    /\ ret' = Ok
    /\ op' = BufCall("push_layer", 0)
    /\ UNCHANGED <<pkt, pc, inner, registry, concat, chain>>

\* prepend_bytes calls, each view written by the caller, while the data
\* is at most MaxFilledLen long
InitPrepend == InitBuffer(NewBuffers)
NextPrepend ==
    \E n \in Sizes :
        /\ Len(buf.data) + n <= MaxFilledLen
        /\ PrependBytes(n, FillByte(buf))
SpecPrepend == InitPrepend /\ [][NextPrepend]_vars

\* append_bytes calls, each view written by the caller, on a new buffer or
\* on one that holds a prepended payload
InitAppend ==
    InitBuffer(NewBuffers \cup
               {write_view(prepend_bytes(SerializeBuffer_new, 2).b, <<0, 2>>, 7)})
NextAppend ==
    \E n \in Sizes :
        /\ Len(buf.data) + n <= MaxFilledLen
        /\ AppendBytes(n, FillByte(buf))
SpecAppend == InitAppend /\ [][NextAppend]_vars

\* every operation of the buffer, the views left as they are returned
InitClear == InitBuffer(NewBuffers)
NextClear ==
    \/ \E n \in Sizes : Len(buf.data) + n <= MaxFilledLen /\ PrependBytes(n, 0)
    \/ \E n \in Sizes : Len(buf.data) + n <= MaxFilledLen /\ AppendBytes(n, 0)
    \/ Clear
    \/ PushLayer(LayerTypePayload)
SpecClear == InitClear /\ [][NextClear]_vars

\* prepend_bytes and append_bytes calls on a buffer made by new(), the
\* views left as they are returned, up to MaxBufLen bytes of data
InitGrowth == InitBuffer({SerializeBuffer_new})
NextGrowth ==
    \/ \E n \in Sizes : PrependBytes(n, 0)
    \/ \E n \in Sizes : AppendBytes(n, 0)
SpecGrowth == InitGrowth /\ [][NextGrowth]_vars

MaxInterleaved == 6

\* prepend_bytes and append_bytes calls in any order on a buffer made by
\* new(), each view written by the caller, while the window holds at most
\* MaxInterleaved bytes
InitInterleave == InitBuffer({SerializeBuffer_new})
NextInterleave ==
    \/ \E n \in Sizes :
        /\ Len(bytes(buf)) + n <= MaxInterleaved
        /\ PrependBytes(n, FillByte(buf))
    \/ \E n \in Sizes :
        /\ Len(bytes(buf)) + n <= MaxInterleaved
        /\ AppendBytes(n, FillByte(buf))
SpecInterleave == InitInterleave /\ [][NextInterleave]_vars

MaxSerLayers == 3
MaxSerMargin == 2

\* layers handed to serialize_layers: with no data and with data of
\* one, two and three bytes
SerLayers ==
    {Payload_new, Fragment_new, Payload_new_from(<<1, 2, 3>>),
     Fragment_new_from(<<4>>), Payload_new_from(<<5, 6>>),
     Fragment_new_from(<<7, 8>>)}

SerLists == SeqsUpTo(SerLayers, MaxSerLayers)

SerCall(name, ls) == [name |-> name, layers |-> ls]

InitSerialize ==
    /\ buf = SerializeBuffer_new
    /\ registry = LayerRegistry_new
    /\ concat = <<>>
    /\ chain = <<>>
    /\ pc = "ready"
    /\ op = SerCall("new", <<>>)
    /\ ret = Ok
    /\ pkt = EagerPacket_new(<<>>, DecodeOptions_default)
    /\ inner = <<>>

\* a call on the buffer that returns a Result or panics, made while the
\* margin the buffer retains is at most MaxSerMargin
SerStep(name, ls, r) ==
    /\ pc = "ready"
    /\ buf.prepended <= MaxSerMargin
    /\ buf' = r.b
    /\ ret' = r.res
    /\ op' = SerCall(name, ls)
    /\ pc' = IF r.res.err = Panic.err THEN "panicked" ELSE "ready"
    /\ UNCHANGED <<pkt, inner, registry, concat, chain>>

SerializeLayers(ls) == SerStep("serialize_layers", ls, serialize_layers(buf, ls))

SerializeTo(l) == SerStep("serialize_to", <<l>>, serialize_to(l, buf))

NextSerialize ==
    \/ \E ls \in SerLists : SerializeLayers(ls)
    \/ \E l \in SerLayers : SerializeTo(l)

SpecSerialize == InitSerialize /\ [][NextSerialize]_vars

MaxClassTypes == 2

\* layer-type ids around the reserved ids and around MAX_LAYER_TYPE
ClassIds ==
    {0, 1, 3, MAX_LAYER_TYPE - 1, MAX_LAYER_TYPE, MAX_LAYER_TYPE + 1,
     MAX_LAYER_TYPE + 2}

ClassTypes == SeqsUpTo(ClassIds, MaxClassTypes)

ClassCall(name, types, class, t) ==
    [name |-> name, types |-> types, class |-> class, t |-> t]

\* the caller holds a list of ids and no class yet
InitClass ==
    /\ \E types \in ClassTypes :
        op = ClassCall("types", types, [kind |-> "", slice |-> <<>>, map |-> <<>>], 0)
    /\ ret = Ok
    /\ pc = "ready"
    /\ buf = SerializeBuffer_new
    /\ registry = LayerRegistry_new
    /\ concat = <<>>
    /\ chain = <<>>
    /\ pkt = EagerPacket_new(<<>>, DecodeOptions_default)
    /\ inner = <<>>

\* new_layer_class(&types)
NewLayerClass ==
    /\ op.name = "types"
    /\ ret' = Value(new_layer_class(op.types))
    /\ op' = ClassCall("new_layer_class", op.types, new_layer_class(op.types), 0)
    /\ UNCHANGED <<pkt, pc, inner, buf, registry, concat, chain>>

\* layer_class.contains(t) on the class new_layer_class returned
Contains(t) ==
    /\ op.name # "types"
    /\ ret' = Value(contains(op.class, t))
    /\ op' = ClassCall("contains", op.types, op.class, t)
    /\ UNCHANGED <<pkt, pc, inner, buf, registry, concat, chain>>

NextClass ==
    \/ NewLayerClass
    \/ \E t \in ClassIds : Contains(t)

SpecClass == InitClass /\ [][NextClass]_vars

\* the initializers that register layer types, each under its own name
Initializers == {"A", "B"}

\* ids asked of register_layer: a reserved id and ids on both sides of
\* MAX_LAYER_TYPE
RegIds ==
    {LayerTypePayload, MAX_LAYER_TYPE - 1, MAX_LAYER_TYPE, MAX_LAYER_TYPE + 1}

RegCall(name, thread, meta, num) ==
    [name |-> name, thread |-> thread, meta |-> meta, num |-> num]

InitRegistry ==
    /\ registry = LayerRegistry_new
    /\ concat = <<>>
    /\ chain = <<>>
    /\ pc = [t \in Initializers |-> "ready"]
    /\ op = RegCall("new", "", LayerType(0, "", ""), 0)
    /\ ret = Ok
    /\ buf = SerializeBuffer_new
    /\ pkt = EagerPacket_new(<<>>, DecodeOptions_default)
    /\ inner = <<>>

\* registry.register_layer(&meta, num) by initializer t.  The call takes
\* &mut self, so no other call on the registry runs while it does; an
\* initializer whose call panics makes no further call.
RegisterLayer(t, num) ==
    /\ pc[t] = "ready"
    /\ LET meta == LayerType(num, t, "create_decode_unknown")
           r == register_layer(registry, meta, num)
       IN  /\ registry' = r.reg
           /\ ret' = r.res
           /\ op' = RegCall("register_layer", t, meta, num)
           /\ pc' = [pc EXCEPT ![t] = IF r.res.ok THEN "ready" ELSE "panicked"]
    /\ UNCHANGED <<pkt, inner, buf, concat, chain>>

NextRegistry == \E t \in Initializers, num \in RegIds : RegisterLayer(t, num)

SpecRegistry == InitRegistry /\ [][NextRegistry]_vars

MaxSources == 2

\* what a source may have to give: packets, an error, an end-of-file with
\* packets behind it
SourceScripts ==
    {<<>>, <<Value(<<1>>)>>, <<Value(<<1>>), Value(<<2>>)>>,
     <<Err(ERR_READ), Value(<<3>>)>>, <<Value(<<4>>), Err(ERR_EOF), Value(<<5>>)>>,
     <<Err(ERR_EOF)>>, <<Value(<<6>>), Err(ERR_READ)>>}

ConcatCall(name) == [name |-> name]

InitConcat ==
    /\ concat \in SeqsUpTo(SourceScripts, MaxSources)
    /\ pc = "ready"
    /\ op = ConcatCall("new")
    /\ ret = Ok
    /\ pkt = EagerPacket_new(<<>>, DecodeOptions_default)
    /\ inner = None
    /\ buf = SerializeBuffer_new
    /\ registry = LayerRegistry_new
    /\ chain = <<>>

\* concat.read_packet_data(); pc counts the calls that reported
\* end-of-file, up to two
ReadPacketData ==
    /\ pc \in {"ready", "eof"}
    /\ LET r == read_packet_data(concat) IN
        /\ concat' = r.c
        /\ ret' = r.res
        /\ pc' = IF r.res.err # ERR_EOF THEN "ready"
                 ELSE IF pc = "ready" THEN "eof" ELSE "eof again"
    /\ op' = ConcatCall("read_packet_data")
    /\ UNCHANGED <<pkt, inner, buf, registry, chain>>

NextConcat == ReadPacketData

SpecConcat == InitConcat /\ [][NextConcat]_vars

MaxChainData == 3

ChainData == SeqsUpTo(Bytes, MaxChainData)

\* chain: the frames, the number of next_decoder calls made and the
\* largest number of frames reached
InitChain ==
    /\ pkt \in {EagerPacket_new(d, o) : d \in ChainData, o \in OptionsSet}
    /\ pc = "empty"
    /\ op = OpRec("new", None, None, None)
    /\ ret = Ok
    /\ inner = None
    /\ buf = SerializeBuffer_new
    /\ registry = LayerRegistry_new
    /\ concat = <<>>
    /\ chain = [frames |-> <<>>, calls |-> 0, depth |-> 0]

Top == chain.frames[Len(chain.frames)]

\* a step of the innermost decode function: frs replaces its frame
ChainStep(name, t, frs, calls) ==
    /\ pc = "decoding"
    /\ LET frames == SubSeq(chain.frames, 1, Len(chain.frames) - 1) \o frs IN
        chain' = [frames |-> frames, calls |-> chain.calls + calls,
                  depth |-> Max(chain.depth, Len(frames))]
    /\ op' = OpRec(name, None, t, None)
    /\ ret' = frs[Len(frs)].res
    /\ UNCHANGED <<pkt, pc, inner, buf, registry, concat>>

\* the decode call starts the decode function of layer type t on the
\* packet data
ChainStart(t) ==
    /\ pc = "empty"
    /\ pc' = "decoding"
    /\ chain' = [frames |-> <<Frame(DecoderFor(t), pkt.data, pkt)>>,
                 calls |-> 0, depth |-> 1]
    /\ op' = OpRec("decode", None, Some(t), None)
    /\ ret' = Ok
    /\ UNCHANGED <<pkt, inner, buf, registry, concat>>

ChainDecodeFromBytes ==
    /\ pc = "decoding" /\ Top.f = "decoding_layer_decoder" /\ Top.at = "start"
    /\ ChainStep("decode_from_bytes", None, <<dld_decode(Top)>>, 0)

ChainAddLayer ==
    /\ pc = "decoding" /\ Top.f = "decoding_layer_decoder" /\ Top.at = "decoded"
    /\ ChainStep("add_layer", None, <<dld_add_layer(Top)>>, 0)

ChainStop ==
    /\ pc = "decoding" /\ Top.f = "decoding_layer_decoder" /\ Top.at = "added"
    /\ dld_stops(Top)
    /\ ChainStep("stop", None, <<[Top EXCEPT !.at = "returned", !.res = Ok]>>, 0)

ChainNextDecoder ==
    /\ pc = "decoding" /\ Top.f = "decoding_layer_decoder" /\ Top.at = "added"
    /\ ~dld_stops(Top)
    /\ LET next == unwrap(Top.d).next IN
        ChainStep("next_decoder", Some(next),
                  next_decoder_frames(Top, DecoderFor(next)), 1)

\* the decode functions of the reserved layer types run as a whole
ChainLeaf ==
    /\ pc = "decoding" /\ Top.f # "decoding_layer_decoder" /\ Top.at = "start"
    /\ LET r == RunDecoder(Top.f, Top.data, Top.b) IN
        ChainStep("leaf", None,
                  <<[Top EXCEPT !.b = r.b, !.at = "returned", !.res = r.res]>>, 0)

\* the innermost decode function returns to next_decoder, which returns
\* its result to the caller; the builder it worked on is dropped
ChainReturn ==
    /\ pc = "decoding" /\ Len(chain.frames) > 1 /\ Top.at = "returned"
    /\ LET caller == chain.frames[Len(chain.frames) - 1] IN
        /\ chain' = [chain EXCEPT !.frames =
                        SubSeq(@, 1, Len(@) - 2)
                            \o <<[caller EXCEPT !.at = "returned", !.res = Top.res]>>]
        /\ ret' = Top.res
    /\ op' = OpRec("return", None, None, None)
    /\ UNCHANGED <<pkt, pc, inner, buf, registry, concat>>

\* the first decode function returns to the decode call
ChainFinish ==
    /\ pc = "decoding" /\ Len(chain.frames) = 1 /\ Top.at = "returned"
    /\ Finish("decode", None, Top.b, Top.res)

NextChain ==
    \/ \E t \in LayerTypeIds : ChainStart(t)
    \/ ChainDecodeFromBytes
    \/ ChainAddLayer
    \/ ChainStop
    \/ ChainNextDecoder
    \/ ChainLeaf
    \/ ChainReturn
    \/ ChainFinish

SpecChain == InitChain /\ [][NextChain]_vars

\* the decode call runs to its end
SpecChainFair == SpecChain /\ WF_vars(NextChain)

MaxLayerData == 3

\* the data a layer is made from: none, or a byte sequence
LayerData == {None} \cup {Some(d) : d \in SeqsUpTo(Bytes, MaxLayerData)}

LayerCall(name, data, layer, t) ==
    [name |-> name, data |-> data, layer |-> layer, t |-> t]

InitLayer ==
    /\ pkt = EagerPacket_new(<<>>, DecodeOptions_default)
    /\ pc = "data"
    /\ op \in {LayerCall("data", d, None, None) : d \in LayerData}
    /\ ret = Ok
    /\ inner = None
    /\ buf = SerializeBuffer_new
    /\ registry = LayerRegistry_new
    /\ concat = <<>>
    /\ chain = <<>>

LayerStep(name, layer, t, v) ==
    /\ op' = LayerCall(name, op.data, Some(layer), t)
    /\ ret' = Value(v)
    /\ pc' = "layer"
    /\ UNCHANGED <<pkt, inner, buf, registry, concat, chain>>

\* Payload::new() and Fragment::new()
LayerNew(l) ==
    /\ pc = "data" /\ is_none(op.data)
    /\ LayerStep("new", l, None, l)

\* Payload::new_from(data) and Fragment::new_from(data)
LayerNewFrom(kind) ==
    /\ pc = "data" /\ is_some(op.data)
    /\ LET l == IF kind = "Payload" THEN Payload_new_from(unwrap(op.data))
                ELSE Fragment_new_from(unwrap(op.data))
       IN  LayerStep("new_from", l, None, l)

LayerContents ==
    /\ pc = "layer"
    /\ LayerStep("layer_contents", unwrap(op.layer), None, layer_contents(unwrap(op.layer)))

LayerString ==
    /\ pc = "layer"
    /\ LayerStep("string", unwrap(op.layer), None, string(unwrap(op.layer)))

NextLayerType ==
    /\ pc = "layer"
    /\ LayerStep("next_layer_type", unwrap(op.layer), None, next_layer_type(unwrap(op.layer)))

\* can_decode().contains(t)
CanDecodeContains(t) ==
    /\ pc = "layer"
    /\ LayerStep("can_decode", unwrap(op.layer), Some(t),
                 layer_type_contains(can_decode(unwrap(op.layer)), t))

NextLayer ==
    \/ \E l \in {Payload_new, Fragment_new} : LayerNew(l)
    \/ \E kind \in {"Payload", "Fragment"} : LayerNewFrom(kind)
    \/ LayerContents
    \/ LayerString
    \/ NextLayerType
    \/ \E t \in LayerTypeIds : CanDecodeContains(t)

SpecLayer == InitLayer /\ [][NextLayer]_vars

InitLookup == Init

\* layer_type() of the layer at position i of layers()
LayerTypeOf(i) ==
    /\ Terminated
    /\ i <= Len(pkt.layers)
    /\ op' = OpRec("layer_type", Some(pkt.layers[i]), None, None)
    /\ ret' = layer_type(pkt.layers[i])
    /\ UNCHANGED <<pkt, pc, inner, buf, registry, concat, chain>>

\* layer(id)
LayerLookup(id) ==
    /\ Terminated
    /\ op' = OpRec("layer", None, Some(id), None)
    /\ ret' = packet_layer(pkt, id)
    /\ UNCHANGED <<pkt, pc, inner, buf, registry, concat, chain>>

NextLookup ==
    \/ \E t \in LayerTypeIds : DecodeCall(t)
    \/ \E i \in 1..(MaxLayers + 1) : LayerTypeOf(i)
    \/ \E id \in LayerTypeIds : LayerLookup(id)

SpecLookup == InitLookup /\ [][NextLookup]_vars

-----------------------------------------------------------------------------
(* Properties *)

IsDecodeFailure(l) == l.kind = "DecodeFailure"

DecodeFailureIndices(p) == {i \in 1..Len(p.layers) : IsDecodeFailure(p.layers[i])}

SameSlots(p, q) ==
    /\ p.link = q.link
    /\ p.network = q.network
    /\ p.transport = q.transport
    /\ p.application = q.application
    /\ p.failure = q.failure

\* C1: when next_decoder runs the next decode function (the last layer has
\* a non-empty payload), every layer that function adds and every slot it
\* sets is in the calling builder once next_decoder has returned.
C1_NextDecoderSharesBuilder ==
    (op.name = "next_decoder" /\ is_some(inner)) =>
        /\ pkt.layers = unwrap(inner).layers
        /\ layers_count(pkt) = layers_count(unwrap(inner))
        /\ SameSlots(pkt, unwrap(inner))

C4_PayloadDecode ==
    (op.name = "decode" /\ op.t = Some(LayerTypePayload)) =>
        /\ ret.ok
        /\ Len(pkt.layers) = 1
        /\ layer_contents(pkt.layers[1]) = Some(pkt.data)
        /\ is_some(application_layer(pkt))
        /\ application_payload(unwrap(application_layer(pkt))) = Some(pkt.data)
        /\ is_none(error_layer(pkt))

C4_Witness ==
    /\ op.name = "decode"
    /\ op.t = Some(LayerTypePayload)
    /\ pkt.data = <<1, 2>>
    /\ Len(pkt.layers) = 1

\* C5: add_layer appends the layer at the end, makes it the last added
\* layer, grows layers_count by one and changes nothing else; the layers
\* already present keep their positions under every operation.
C5_AddLayerAppends ==
    [][/\ op'.name = "add_layer" =>
            /\ pkt' = [pkt EXCEPT !.layers = Append(pkt.layers, unwrap(op'.layer)),
                                  !.last = op'.layer]
            /\ layers_count(pkt') = layers_count(pkt) + 1
            /\ ret'.ok
       /\ Len(pkt'.layers) >= Len(pkt.layers)
       /\ SubSeq(pkt'.layers, 1, Len(pkt.layers)) = pkt.layers]_vars

C5_Witness ==
    /\ op.name = "add_layer"
    /\ Len(pkt.layers) = 2
    /\ pkt.layers[1] # pkt.layers[2]
    /\ is_some(pkt.network)
    /\ pkt.metadata.truncated

\* what a set_*_layer call must do to slot f: fill it when it is empty,
\* and change nothing at all when it is taken
SetOnce(f, l, p, q) ==
    IF is_none(p[f]) THEN q = [p EXCEPT ![f] = l] ELSE q = p

SlotOf(name) ==
    CASE name = "set_link_layer" -> "link"
      [] name = "set_network_layer" -> "network"
      [] name = "set_transport_layer" -> "transport"
      [] name = "set_application_layer" -> "application"
      [] name = "set_error_layer" -> "failure"

SetterNames ==
    {"set_link_layer", "set_network_layer", "set_transport_layer",
     "set_application_layer", "set_error_layer"}

Slots == {"link", "network", "transport", "application", "failure"}

\* C6: for each class the slot holds the layer of the first set_*_layer
\* call; a later call for the class, also with another layer, changes
\* neither that slot nor any other slot nor the layers; once set, a slot
\* keeps its layer under every builder operation.
C6_FirstSetWins ==
    [][/\ op'.name \in SetterNames =>
            SetOnce(SlotOf(op'.name), op'.layer, pkt, pkt')
       /\ \A f \in Slots : is_some(pkt[f]) => pkt'[f] = pkt[f]]_vars

C6_Witness ==
    /\ op.name = "set_network_layer"
    /\ is_some(pkt.network)
    /\ pkt.network # op.layer
    /\ Len(pkt.layers) = 2
    /\ is_some(pkt.link)
    /\ is_some(pkt.failure)

\* C7: next_decoder on a builder with no layer fails with the no-last-layer
\* error, does not run the next decode function and changes nothing.
C7_NoLastLayer ==
    [][(op'.name = "next_decoder" /\ is_none(pkt.last)) =>
        /\ ret' = Err(ERR_NO_LAST_LAYER)
        /\ is_none(inner')
        /\ pkt' = pkt]_vars

C7_Witness ==
    /\ op.name = "next_decoder"
    /\ Len(pkt.layers) = 0
    /\ is_none(pkt.last)
    /\ ret = Err(ERR_NO_LAST_LAYER)

EmptyOrAbsent(payload) == is_none(payload) \/ Len(unwrap(payload)) = 0

\* C8: next_decoder on a builder whose last layer has an empty or absent
\* payload returns success, does not run the next decode function, adds
\* no layer and sets no slot.
C8_EmptyPayloadTerminates ==
    [][(op'.name = "next_decoder" /\ is_some(pkt.last)
            /\ EmptyOrAbsent(layer_payload(unwrap(pkt.last)))) =>
        /\ ret' = Ok
        /\ is_none(inner')
        /\ pkt' = pkt]_vars

C8_Witness ==
    /\ op.name = "next_decoder"
    /\ is_some(pkt.last)
    /\ layer_payload(unwrap(pkt.last)) = Some(<<>>)
    /\ ret = Ok
    /\ is_none(inner)

\* C9: in every reachable packet state the layer sequence holds at most
\* one DecodeFailure layer, and when it holds one the error-layer slot
\* refers to that layer.
C9_SingleFailureInSlot ==
    /\ Cardinality(DecodeFailureIndices(pkt)) <= 1
    /\ \A i \in DecodeFailureIndices(pkt) : error_layer(pkt) = Some(pkt.layers[i])

PcSteps ==
    {<<"empty", "decoding">>, <<"decoding", "decoding">>,
     <<"empty", "decoded">>, <<"empty", "failed">>,
     <<"decoding", "decoded">>, <<"decoding", "failed">>,
     <<"decoded", "decoded">>, <<"failed", "failed">>}

C11_FeedbackTruncationRecorded ==
    op.name = "feedback_set_truncated" => pkt.metadata.truncated

\* indices, counted from 0 in decode order, of the layers by the outcome
\* of their checksum verification
HardFailureIndices(p) ==
    {i \in 0..(Len(p.layers) - 1) :
        LET r == verify_checksum(p.layers[i + 1])
        IN  ~r.ok /\ r.error = "VerifyChecksum"}

MismatchIndices(p) ==
    {i \in 0..(Len(p.layers) - 1) :
        LET r == verify_checksum(p.layers[i + 1]) IN r.ok /\ ~r.cvr.valid}

\* C12: when no layer reports a hard verification failure, verify_checksums
\* returns successfully a list with exactly one entry per layer whose
\* result is valid = false, in decode order, each with that layer and its
\* index; the list is empty iff every layer with a checksum passed.
C12_MismatchesReturned ==
    (op.name = "verify_checksums" /\ HardFailureIndices(pkt) = {}) =>
        /\ ret.ok
        /\ Len(ret.val) = Cardinality(MismatchIndices(pkt))
        /\ {ret.val[k].layer_index : k \in 1..Len(ret.val)} = MismatchIndices(pkt)
        /\ \A k \in 1..(Len(ret.val) - 1) :
                ret.val[k].layer_index < ret.val[k + 1].layer_index
        /\ \A k \in 1..Len(ret.val) :
                ret.val[k].layer = pkt.layers[ret.val[k].layer_index + 1]
        /\ (Len(ret.val) = 0) <=> (MismatchIndices(pkt) = {})

\* C13: when a layer reports a hard verification failure, verify_checksums
\* returns an error and no mismatch list, and the error names the index of
\* the first failing layer in the numbering of layer_index.
C13_HardFailureIndex ==
    (op.name = "verify_checksums" /\ HardFailureIndices(pkt) # {}) =>
        LET first == CHOOSE i \in HardFailureIndices(pkt) :
                        \A j \in HardFailureIndices(pkt) : i <= j
        IN  /\ ~ret.ok
            /\ ret.val = <<>>
            /\ ret.err = ERR_COULD_NOT_VERIFY
            /\ ret.layer = Some(first)

\* the big-endian 16-bit words of an even-length byte sequence
Words(d) == [k \in 1..(Len(d) \div 2) |-> d[2 * k - 1] * 256 + d[2 * k]]

\* ones-complement addition of two 16-bit values: the carry is added back
OnesAdd(x, y) == LET sum == x + y IN IF sum > U16 - 1 THEN sum - (U16 - 1) ELSE sum

RECURSIVE OnesSum(_)
OnesSum(words) ==
    IF Len(words) = 0 THEN 0 ELSE OnesAdd(Head(words), OnesSum(Tail(words)))

\* the RFC1071 internet checksum of an even-length byte sequence
InternetChecksum(d) == not16(OnesSum(Words(d)))

\* C14: for every even-length byte sequence
\* fold_checksum(compute_checksum(bytes, 0)) is the RFC1071 internet
\* checksum of the bytes; it is fffe and b861 for the two headers of
\* test_checksum with their checksum field zeroed.
C14_InternetChecksum ==
    (op.name = "checksum" /\ Len(op.data) % 2 = 0) =>
        /\ ret.val = InternetChecksum(op.data)
        /\ op.data = ClearChecksum(Header1) => ret.val = 65534
        /\ op.data = ClearChecksum(Header2) => ret.val = 47201

C14_Witness ==
    /\ op.name = "checksum"
    /\ op.data = ClearChecksum(Header1)
    /\ ret.val = 65534

\* C15: for every odd-length byte sequence compute_checksum(bytes, initial)
\* equals compute_checksum(bytes followed by one zero byte, initial).
C15_OddByteCountedOnce ==
    (op.name = "compute_checksum" /\ Len(op.data) % 2 = 1) =>
        ret.val = compute_checksum(Append(op.data, 0), op.csum)

\* the 16-bit value a 32-bit value folds to: the value modulo 0xffff, with
\* 0xffff standing for the nonzero multiples
FoldedValue(c) ==
    IF c = Zero32 THEN 0 ELSE ((shr16(c) + low16(c) - 1) % (U16 - 1)) + 1

\* C16: for every 32-bit value fold_checksum ends after at most two folding
\* steps and returns the 16-bit complement of the folded value; for a
\* value up to 0xffff that is the complement of the value itself.
C16_FoldChecksum ==
    op.name = "fold_checksum" =>
        /\ fold_steps(op.csum) <= 2
        /\ ret.val = not16(FoldedValue(op.csum))
        /\ shr16(op.csum) = 0 => ret.val = not16(low16(op.csum))

C16_Witness ==
    /\ op.name = "fold_checksum"
    /\ op.csum = <<U16 - 1, U16 - 1>>
    /\ fold_steps(op.csum) = 2
    /\ ret.val = 0

\* C17: for byte sequences a of even length and b,
\* compute_checksum(b, compute_checksum(a, 0)) equals
\* compute_checksum(a followed by b, 0).
C17_RegionsAccumulate ==
    (op.name = "compute_regions" /\ Len(op.data) % 2 = 0) =>
        ret.val = compute_checksum(op.data \o op.rest, Zero32)

C17_Witness ==
    /\ op.name = "compute_regions"
    /\ op.data = <<255, 255, 255, 255>>
    /\ op.rest = <<1, 255>>
    /\ ret.val = <<2, 509>>

\* C18: every prepend_bytes(n) succeeds and returns a view of exactly n
\* bytes at the front of the window, and afterwards bytes() is those n
\* bytes followed by the bytes visible before the call, unchanged.
C18_PrependGrowsLeft ==
    [][op'.name = "prepend_bytes" =>
        /\ ret'.ok
        /\ unwrap(ret'.val) = <<buf'.start, buf'.start + op'.num>>
        /\ Len(bytes(buf')) = op'.num + Len(bytes(buf))
        /\ SubSeq(bytes(buf'), op'.num + 1, Len(bytes(buf'))) = bytes(buf)]_vars

\* C19: every append_bytes(n) succeeds and returns a view of exactly n
\* bytes at the end of the window, and afterwards bytes() is the bytes
\* visible before the call, unchanged, followed by those n bytes.
C19_AppendGrowsRight ==
    [][op'.name = "append_bytes" =>
        /\ ret'.ok
        /\ unwrap(ret'.val) = <<Len(buf'.data) - op'.num, Len(buf'.data)>>
        /\ Len(bytes(buf')) = Len(bytes(buf)) + op'.num
        /\ SubSeq(bytes(buf'), 1, Len(bytes(buf))) = bytes(buf)
        /\ buf'.start = buf.start]_vars

C19_Witness ==
    /\ op.name = "append_bytes"
    /\ op.num = 2
    /\ ret.val = Some(<<8, 10>>)
    /\ bytes(buf) = <<7, 7, 3, 3, 5, 6, 7, 7, 9, 9>>
    /\ buf.cap = 16

\* C20: in every reachable buffer state clear() succeeds, leaves an empty
\* window and an empty layer trail, and leaves start at the total prepend
\* margin: the expected prepend length the buffer was created with plus
\* the margin grown by prepend_bytes; 32 after nine prepend_bytes(2) on a
\* fresh buffer.
C20_ClearKeepsMargin ==
    [][op'.name = "clear" =>
        /\ ret'.ok
        /\ Len(bytes(buf')) = 0
        /\ Len(buf'.layers) = 0
        /\ buf'.start = buf.expected_prepend_length + buf.prepended
        /\ buf'.start >= buf.start]_vars

\* the buffer after k calls of prepend_bytes(2) on a buffer made by new()
RECURSIVE PrependTimes(_)
PrependTimes(k) ==
    IF k = 0 THEN SerializeBuffer_new ELSE prepend_bytes(PrependTimes(k - 1), 2).b

\* the buffer after k calls of append_bytes(2) on a buffer made by new()
RECURSIVE AppendTimes(_)
AppendTimes(k) ==
    IF k = 0 THEN SerializeBuffer_new ELSE append_bytes(AppendTimes(k - 1), 2).b

\* the capacities the claim lists
PrependCaps == <<2, 4, 8, 8, 16, 16, 16, 16, 32>>
AppendCaps == <<8, 8, 8, 8, 16, 16, 16, 16, 32, 32>>

\* C21: on a buffer made by new() the capacity after the 1st..9th
\* prepend_bytes(2) is 2,4,8,8,16,16,16,16,32 and after the 1st..10th
\* append_bytes(2) is 8,8,8,8,16,16,16,16,32,32; a prepend_bytes(n) that
\* succeeds changes the capacity only when the left margin is smaller
\* than n, and then adds max(margin added so far, n) to the capacity and
\* to the margin added so far.
C21_GeometricGrowth ==
    [][/\ \A k \in 1..Len(PrependCaps) :
            (/\ op'.name = "prepend_bytes" /\ op'.num = 2
             /\ Len(buf.data) - buf.start = 2 * (k - 1)
             /\ buf = PrependTimes(k - 1))
                => (ret'.ok /\ buf'.cap = PrependCaps[k])
       /\ \A k \in 1..Len(AppendCaps) :
            (/\ op'.name = "append_bytes" /\ op'.num = 2
             /\ Len(buf.data) - buf.start = 2 * (k - 1)
             /\ buf = AppendTimes(k - 1))
                => (ret'.ok /\ buf'.cap = AppendCaps[k])
       /\ (op'.name = "prepend_bytes" /\ ret'.ok) =>
            IF buf.start < op'.num
            THEN /\ buf'.cap = buf.cap + Max(buf.prepended, op'.num)
                 /\ buf'.prepended = buf.prepended + Max(buf.prepended, op'.num)
                 /\ buf'.prepended >= 2 * buf.prepended
            ELSE buf'.cap = buf.cap /\ buf'.prepended = buf.prepended]_vars

C21_Witness ==
    /\ op.name = "prepend_bytes"
    /\ op.num = 2
    /\ buf = PrependTimes(9)
    /\ Len(bytes(buf)) = 18
    /\ buf.cap = 32
    /\ buf.prepended = 32

\* C22: a buffer can be reused: serialize_layers with a layer list on a
\* buffer used by earlier calls returns the same result and leaves the
\* same bytes() and the same layers() trail as serialize_layers with that
\* list on a buffer made by new().
C22_ReuseEqualsFresh ==
    [][op'.name = "serialize_layers" =>
        LET fresh == serialize_layers(SerializeBuffer_new, op'.layers) IN
            /\ ret' = fresh.res
            /\ bytes(buf') = bytes(fresh.b)
            /\ buf'.layers = fresh.b.layers]_vars

\* the bytes the layers of a list hold, in list order
RECURSIVE ConcatData(_)
ConcatData(ls) ==
    IF Len(ls) = 0 THEN <<>> ELSE unwrap(ls[1].in_data) \o ConcatData(Tail(ls))

\* the layer types of a list, last element first
ReversedTypes(ls) ==
    [k \in 1..Len(ls) |-> serializable_layer_type(ls[Len(ls) + 1 - k])]

\* C23: when serialize_layers succeeds, bytes() is the concatenation of
\* the layers' bytes in list order (first layer outermost), whatever the
\* sizes of the layers, and layers() lists the layer types in the order
\* they were serialized: the input list reversed.
C23_SerializeOrder ==
    [][(op'.name = "serialize_layers" /\ ret'.ok) =>
        /\ bytes(buf') = ConcatData(op'.layers)
        /\ buf'.layers = ReversedTypes(op'.layers)]_vars

\* the position of the first layer without data that serialize_layers
\* meets, the last one of the list; 0 when every layer holds data
FailingIndex(ls) ==
    IF \A i \in 1..Len(ls) : is_some(ls[i].in_data) THEN 0
    ELSE CHOOSE i \in 1..Len(ls) :
            /\ is_none(ls[i].in_data)
            /\ \A j \in (i + 1)..Len(ls) : is_some(ls[j].in_data)

\* the layers serialize_layers meets before layers[i]
After(ls, i) == SubSeq(ls, i + 1, Len(ls))

\* C24: when serialize_layers meets a layer whose serialize_to returns an
\* error it returns that error, the layer trail holds exactly the types of
\* the layers serialized before it, without the type of the failing one,
\* and the buffer is as those layers left it: no layer further out is
\* serialized.  It returns an error in no other case.
C24_AbortAtFirstError ==
    [][(op'.name = "serialize_layers" /\ ret'.err # Panic.err) =>
        LET ls == op'.layers
            i == FailingIndex(ls)
        IN  IF i = 0 THEN ret'.ok
            ELSE /\ ret' = Err(ERR_IN_DATA_EMPTY)
                 /\ buf'.layers = ReversedTypes(After(ls, i))
                 /\ buf' = serialize_layers(buf, After(ls, i)).b]_vars

C24_Witness ==
    /\ op.name = "serialize_layers"
    /\ op.layers = <<Payload_new_from(<<5, 6>>), Fragment_new, Fragment_new_from(<<4>>)>>
    /\ ret = Err(ERR_IN_DATA_EMPTY)
    /\ buf.layers = <<LayerTypeFragment>>
    /\ bytes(buf) = <<4>>

\* C25: serialize_to of a Payload or Fragment that holds data succeeds and
\* writes exactly those bytes at the front of the window, so that on an
\* empty buffer bytes() becomes exactly the data; serialize_to of one
\* made with no data returns the error "in_data is empty" and leaves the
\* window and the layer trail unchanged.
C25_SerializeTo ==
    [][op'.name = "serialize_to" =>
        LET l == op'.layers[1] IN
            IF is_some(l.in_data)
            THEN /\ ret'.ok
                 /\ SubSeq(bytes(buf'), 1, Len(unwrap(l.in_data))) = unwrap(l.in_data)
                 /\ Len(bytes(buf)) = 0 => bytes(buf') = unwrap(l.in_data)
            ELSE /\ ret' = Err(ERR_IN_DATA_EMPTY)
                 /\ bytes(buf') = bytes(buf)
                 /\ buf'.layers = buf.layers]_vars

\* C26: the class new_layer_class builds from a list of ids answers
\* contains(id) = TRUE for every id of the list and FALSE for every other
\* id, also for ids larger than every member and for the empty list.
C26_ContainsIsMembership ==
    /\ op.name = "contains" => ret.val = (op.t \in Elems(op.types))
    /\ op.name = "new_layer_class" =>
            \A t \in ClassIds : contains(ret.val, t) = (t \in Elems(op.types))

C26_Witness ==
    /\ op.name = "contains"
    /\ op.types = <<1, 3>>
    /\ op.class.kind = "LayerClassSlice"
    /\ op.t = MAX_LAYER_TYPE - 1
    /\ ret.val = FALSE

\* C27: new_layer_class backs the class with the boolean vector exactly
\* when every member id is below MAX_LAYER_TYPE, and with the map
\* otherwise, also when the largest member id equals MAX_LAYER_TYPE.
C27_DenseIffBelowThreshold ==
    op.name = "new_layer_class" =>
        /\ ret.val.kind \in {"LayerClassSlice", "LayerClassMap"}
        /\ (ret.val.kind = "LayerClassSlice")
                <=> (\A t \in Elems(op.types) : t < MAX_LAYER_TYPE)

\* the binding of an id: the entry of the array below MAX_LAYER_TYPE, the
\* entry of the map from MAX_LAYER_TYPE on
Binding(reg, id) ==
    IF id < MAX_LAYER_TYPE
    THEN IF id \in DOMAIN reg.lt_meta THEN Some(reg.lt_meta[id]) ELSE None
    ELSE IF id \in DOMAIN reg.lt_meta_map THEN Some(reg.lt_meta_map[id]) ELSE None

\* a call that returned an error to its caller
ReturnedError(r) == ~r.ok /\ r.err # Panic.err

\* C28: register_layer under an id that is already bound returns an error
\* to the caller and leaves every binding as it was, in the array and in
\* the map alike; under an unbound id it succeeds and binds exactly that
\* id.
C28_AlreadyRegistered ==
    [][op'.name = "register_layer" =>
        IF is_some(Binding(registry, op'.num))
        THEN /\ ReturnedError(ret')
             /\ \A id \in RegIds : Binding(registry', id) = Binding(registry, id)
        ELSE /\ ret'.ok
             /\ Binding(registry', op'.num) = Some(op'.meta)
             /\ \A id \in RegIds \ {op'.num} :
                    Binding(registry', id) = Binding(registry, id)]_vars

\* the ids the core reserves
ReservedIds ==
    {LayerTypeZero, LayerTypeDecodeFailure, LayerTypePayload, LayerTypeFragment}

\* C29: the four reserved ids are bound in the registry LayerRegistry::new
\* returns and in every later state.
C29_ReservedPreRegistered ==
    \A id \in ReservedIds : is_some(Binding(registry, id))

\* C30: of the registrations two initializers make for the same unbound
\* id exactly one succeeds: the later one finds the id bound by the other
\* initializer, returns an error to its caller and leaves that binding in
\* place; a registration for an id nobody has bound succeeds and leaves
\* the ids the other initializer has bound as they are, in the array and
\* in the map alike.
C30_ConcurrentRegistration ==
    [][op'.name = "register_layer" =>
        LET old == Binding(registry, op'.num) IN
            /\ (is_some(old) /\ unwrap(old).name # op'.thread) =>
                    /\ ReturnedError(ret')
                    /\ Binding(registry', op'.num) = old
            /\ is_none(old) =>
                    /\ ret'.ok
                    /\ is_some(Binding(registry', op'.num))
                    /\ unwrap(Binding(registry', op'.num)).name = op'.thread
                    /\ \A id \in RegIds \ {op'.num} :
                            Binding(registry', id) = Binding(registry, id)
            /\ \A t \in Initializers \ {op'.thread} : pc'[t] = pc[t]]_vars

\* what a source gives before its first end-of-file
RECURSIVE UntilEof(_)
UntilEof(src) ==
    IF Len(src) = 0 \/ Head(src) = Err(ERR_EOF) THEN <<>>
    ELSE <<Head(src)>> \o UntilEof(Tail(src))

\* what the sources of a Concat give before their ends-of-file, in source
\* order
RECURSIVE InSourceOrder(_)
InSourceOrder(c) ==
    IF Len(c) = 0 THEN <<>> ELSE UntilEof(c[1]) \o InSourceOrder(Tail(c))

\* C31: every read_packet_data of a Concat returns the next result, in
\* source order, of what its sources give before their ends-of-file; a
\* source that reported end-of-file is dropped within the call and what it
\* has left is never returned; end-of-file is returned only when every
\* source is exhausted, and then by every later call; an error that is
\* not end-of-file is returned with its source still first.
C31_ConcatInSourceOrder ==
    [][op'.name = "read_packet_data" =>
        LET todo == InSourceOrder(concat) IN
            /\ ret' = IF Len(todo) = 0 THEN Err(ERR_EOF) ELSE Head(todo)
            /\ InSourceOrder(concat') = IF Len(todo) = 0 THEN <<>> ELSE Tail(todo)
            /\ ret' = Err(ERR_EOF) => Len(concat') = 0
            /\ Len(concat') <= Len(concat)
            /\ ret' = Err(ERR_READ) =>
                    /\ Len(concat') > 0
                    /\ \E k \in 1..Len(concat) :
                            /\ Len(concat[k]) > 0
                            /\ Head(concat[k]) = ret'
                            /\ concat' = <<Tail(concat[k])>> \o SubSeq(concat, k + 1, Len(concat))]_vars

C31_Witness ==
    /\ op.name = "read_packet_data"
    /\ ret = Value(<<6>>)
    /\ concat = <<<<Err(ERR_READ)>>>>
    /\ pc = "ready"

\* the decode call statement by statement ends as the decode call as a
\* whole does
ChainAsWhole ==
    (Terminated /\ Len(chain.frames) = 1) =>
        LET r == RunDecoder(Top.f, Top.data, Top.b0)
            f == finish_decode(r.b, r.res)
        IN  pkt = f.p /\ ret = f.res

\* C32: a decode function whose layer reports next layer type Zero returns
\* success without calling next_decoder, and next_decoder is only ever
\* invoked with a layer type other than Zero
C32_ZeroNeverDispatched ==
    [][/\ (op'.name = "next_decoder" => unwrap(op'.t) # LayerTypeZero)
       /\ (/\ pc = "decoding"
           /\ Top.f = "decoding_layer_decoder"
           /\ Top.at = "added"
           /\ unwrap(Top.d).next = LayerTypeZero)
          => /\ Len(chain'.frames) = Len(chain.frames)
             /\ chain'.frames[Len(chain'.frames)].at = "returned"
             /\ chain'.frames[Len(chain'.frames)].res = Ok
             /\ chain'.calls = chain.calls]_vars

C32_Witness ==
    /\ pc = "decoding"
    /\ op.name = "stop"
    /\ Len(chain.frames) = 2
    /\ chain.calls = 1
    /\ unwrap(Top.d).next = LayerTypeZero
    /\ ret = Ok

GenericFrames ==
    {k \in 1..Len(chain.frames) : chain.frames[k].f = "decoding_layer_decoder"}

\* what a generic decode function has done to its builder, at each of its
\* positions
FrameAsClaimed(fr) ==
    /\ fr.at \in {"start", "decoded"} => fr.b = fr.b0 /\ fr.called = 0
    /\ (fr.at = "returned" /\ ~unwrap(fr.d).ok) =>
            /\ fr.b = fr.b0
            /\ fr.called = 0
            /\ fr.res = Err(unwrap(fr.d).err)
    /\ (fr.at \in {"added", "calling"} \/ (fr.at = "returned" /\ unwrap(fr.d).ok)) =>
            /\ fr.b.layers = Append(fr.b0.layers, unwrap(unwrap(fr.d).layer))
            /\ SameSlots(fr.b, fr.b0)
            /\ fr.called = (IF fr.at = "added" THEN 0 ELSE fr.called)
            /\ fr.called <= 1
            /\ fr.at = "calling" => fr.called = 1

ShrinkingChain ==
    /\ Len(chain.frames) = 1
    /\ Top.f = "decoding_layer_decoder"
    /\ Len(pkt.data) > 0
    /\ \A i \in 1..Len(pkt.data) : pkt.data[i] = LayerTypeBase

\* every decode call returns
ChainTerminates == <>Terminated

\* the number of next_decoder calls of a decode call is at most the length
\* of the input plus one, and so is the number of frames
ChainCallsBounded ==
    pc # "empty" =>
        /\ chain.calls <= Len(pkt.data) + 1
        /\ chain.depth <= Len(pkt.data) + 1

\* C40: a decode call whose decode functions each add one layer with a
\* strictly shorter payload and end with next_decoder returns after at most
\* input length plus one next_decoder calls, and the recursion depth it
\* reached is the number of layers of the packet
C40_DepthIsLayerCount ==
    (Terminated /\ ShrinkingChain) =>
        /\ chain.calls <= Len(pkt.data) + 1
        /\ chain.depth = layers_count(pkt)

UnknownDecoders ==
    {decoder_builder(LayerTypeZero), decoder_builder(LayerTypeDecodeFailure)}

\* C36: the decode function of the reserved ids Zero and DecodeFailure
\* returns a decode error for every input, the empty one included, and
\* leaves the builder as it received it: no layer added, no slot set
C36_UnknownAlwaysFails ==
    \A k \in 1..Len(chain.frames) :
        LET fr == chain.frames[k] IN
        (fr.f \in UnknownDecoders /\ fr.at = "returned") =>
            /\ ~fr.res.ok
            /\ fr.res = Err(ERR_DECODE_UNKNOWN)
            /\ fr.b.layers = fr.b0.layers
            /\ SameSlots(fr.b, fr.b0)
            /\ fr.b = fr.b0

C36_Witness ==
    /\ pc = "decoding"
    /\ op.name = "leaf"
    /\ Len(chain.frames) = 2
    /\ Top.f = decoder_builder(LayerTypeDecodeFailure)
    /\ Top.at = "returned"
    /\ Len(Top.b0.layers) = 1
    /\ ~ret.ok

Digits == <<"0", "1", "2", "3", "4", "5", "6", "7", "8", "9">>

\* the decimal numeral of n
RECURSIVE Decimal(_)
Decimal(n) ==
    IF n < 10 THEN Digits[n + 1] ELSE Decimal(n \div 10) \o Digits[(n % 10) + 1]

\* C33: a Payload or Fragment made with no data reports no contents and
\* the description "0 byte(s)"; made from k bytes it reports exactly those
\* bytes as contents and the description "k byte(s)" ("3 byte(s)" for
\* [1,2,3]); next_layer_type() is Zero
C33_ContentsAndDescription ==
    LET k == IF is_some(op.data) THEN Len(unwrap(op.data)) ELSE 0 IN
    /\ op.name = "layer_contents" =>
            /\ is_none(op.data) => is_none(ret.val) 
            /\ is_some(op.data) => ret.val = Some(unwrap(op.data))
    /\ op.name = "string" =>
            /\ ret.val = Decimal(k) \o " byte(s)"
            /\ is_none(op.data) => ret.val = "0 byte(s)"
            /\ op.data = Some(<<1, 2, 3>>) => ret.val = "3 byte(s)"
    /\ op.name = "next_layer_type" => ret.val = LayerTypeZero

C33_Witness ==
    /\ op.name = "string"
    /\ op.data = Some(<<1, 2, 3>>)
    /\ unwrap(op.layer).kind = "Fragment"
    /\ ret.val = "3 byte(s)"

\* C37: for a Fragment and for a Payload made from data, can_decode() is a
\* layer class that contains the Fragment layer type id (3)
C37_CanDecodeContainsFragment ==
    (op.name = "can_decode" /\ is_some(op.data) /\ op.t = Some(LayerTypeFragment)) =>
        ret.val = TRUE

\* C38: the layer failure capture appends has the reserved DecodeFailure
\* layer type: layer_type() of every layer of a failed packet returns, for
\* the failure layer with the DecodeFailure id, and layer(id) on a failed
\* packet returns a result, the failure layer for the DecodeFailure id and
\* nothing for an id no layer has
C38_FailureLayerWellFormed ==
    is_some(pkt.failure) =>
        /\ op.name = "layer_type" =>
                /\ ret.ok
                /\ IsDecodeFailure(unwrap(op.layer)) => ret.val = LayerTypeDecodeFailure
        /\ op.name = "layer" =>
                /\ ret.ok
                /\ op.t = Some(LayerTypeDecodeFailure) => ret.val = pkt.failure
                /\ (\A i \in 1..Len(pkt.layers) :
                        pkt.layers[i].layer_type # op.t
                        /\ ~(IsDecodeFailure(pkt.layers[i]) /\ op.t = Some(LayerTypeDecodeFailure)))
                    => ret.val = None

\* C39: the Fragment decode function, like the Payload decode function,
\* adds exactly one layer for every input, the empty one included, and
\* sets the application-layer slot to a layer whose payload() is the bytes
\* it was given
C39_FragmentDecoder ==
    \A k \in 1..Len(chain.frames) :
        LET fr == chain.frames[k] IN
        (fr.f \in {"decode_fragment", "create_decode_payload"} /\ fr.at = "returned") =>
            /\ fr.res.ok
            /\ Len(fr.b.layers) = Len(fr.b0.layers) + 1
            /\ is_some(fr.b.application)
            /\ fr.b.application = Some(fr.b.layers[Len(fr.b.layers)])
            /\ application_payload(unwrap(fr.b.application)) = Some(fr.data)

\* the same for the Payload decode function alone
PayloadDecoderAsClaimed ==
    \A k \in 1..Len(chain.frames) :
        LET fr == chain.frames[k] IN
        (fr.f = "create_decode_payload" /\ fr.at = "returned") =>
            /\ fr.res.ok
            /\ Len(fr.b.layers) = Len(fr.b0.layers) + 1
            /\ is_some(fr.b.application)
            /\ application_payload(unwrap(fr.b.application)) = Some(fr.data)

\* the view of a call of size n, as its caller fills it
Region(b, n) == [i \in 1..n |-> FillByte(b)]

\* C34: in every interleaving of prepend_bytes and append_bytes calls each
\* call succeeds, a prepended region comes in front of the bytes visible
\* before and an appended region behind them, so that bytes() is the
\* prepended regions in reverse call order followed by the appended ones
\* in call order, as long as the sum of the sizes asked
C34_InterleavedPrependAppend ==
    [][/\ op'.name = "prepend_bytes" =>
            /\ ret'.ok
            /\ bytes(buf') = Region(buf, op'.num) \o bytes(buf)
       /\ op'.name = "append_bytes" =>
            /\ ret'.ok
            /\ bytes(buf') = bytes(buf) \o Region(buf, op'.num)]_vars

====
